---- MODULE Spec2Model ----
(***************************************************************************)
(* A model of the v5wasm simulator: the protocol channel (protocol.rs),    *)
(* the orchestrator life cycle (main.rs: start) and the SDK state with its *)
(* command dispatch and jump table (sdk/mod.rs).                           *)
(*                                                                         *)
(* Threads: the main (simulator) thread runs start() and then the guest;   *)
(* the reader thread of Protocol::open pushes what it reads from stdin     *)
(* into the unbounded mpsc channel `inbound`.                              *)
(***************************************************************************)
EXTENDS Integers, Sequences, FiniteSets, TLC

\* ------------------------------------------------------------------ bounds
\* Lines the frontend writes to stdin in one run.
MaxCmds == 3
\* Host calls the guest makes in one run.
MaxCalls == 2
\* Messages the reader thread is ahead of the main thread by.
MaxInflight == 1
\* SDK functions JumpTable::new registers in a life-cycle run (a prefix of
\* the registration order of the source).
LifecycleApi == 1
\* SDK functions registered in a jump-table run (SpecJT).
MaxApi == 4
\* Largest initial size of the imported indirect function table (SpecJT).
MaxBase == 2
\* Largest value of the options word of a cold header (SpecHdr).
MaxFlags == 7
\* Host calls the guest makes in a display run (SpecDisplay).
MaxDisplayCalls == 3
\* Host calls the guest makes in a drawing run (SpecDraw).
MaxDrawCalls == 3
\* Host calls the guest makes in a controller run (SpecController).
MaxControllerCalls == 3
\* Host calls the guest makes in a competition run (SpecCompetition).
MaxStatusCalls == 3
\* Host calls the guest makes in a formatting run (SpecPrintf).
MaxPrintfCalls == 2
\* Numeric conversions formatted in a conversion run (SpecNumeric).
MaxNumericCalls == 2
\* Host calls the guest makes in an update run (SpecUpdate).
MaxUpdateCalls == 3
\* Host calls the guest makes in a full-buffer run (SpecSerialFull).
MaxFullCalls == 3
\* Host calls the guest makes in a printing run (SpecVprintf).
MaxVprintfCalls == 3
\* Host calls the guest makes in a metrics-wait run (SpecWait).
MaxWaitCalls == 2
\* Host calls the guest makes in a vsync run (SpecVsync).
MaxVsyncCalls == 2
\* Host calls the guest makes in a task run (SpecTasks).
MaxTaskCalls == 3
\* Host calls the guest makes in a text-metrics run (SpecText).
MaxTextCalls == 3
\* Host calls the guest makes in a serial run (SpecSerial).
MaxSerialCalls == 3
\* Host calls the guest makes in a serial input run (SpecSerialIn).
MaxInputCalls == 4

\* --------------------------------------------------------------- constants
COMPATIBLE_PROTOCOL_VERSION == 1
JUMP_TABLE_START == 58703872
TARGET_PAGES == 1792
PAGE_SIZE == 65536
STDIN_BUFFER_SIZE == 4096
STDOUT_BUFFER_SIZE == 2048

\* --------------------------------------------------------------- commands
\* vexide_simulator_protocol::Command, one constructor per variant that
\* execute_command matches on.
Handshake(v, e) == [type |-> "Handshake", version |-> v, extensions |-> e]
StartExecution == [type |-> "StartExecution"]
CompetitionModeCmd(m) == [type |-> "CompetitionMode", mode |-> m]
SetTextMetrics(t, m) == [type |-> "SetTextMetrics", text |-> t, metrics |-> m]
ControllerUpdateCmd(p, q) == [type |-> "ControllerUpdate", primary |-> p, partner |-> q]
\* SerialData: the channel and the encoded bytes (ok: whether they decode)
SerialCmd(ch, ok, bytes) ==
  [type |-> "Serial", channel |-> ch, data |-> [ok |-> ok, bytes |-> bytes]]
Stub(t) == [type |-> t]

\* The arms of execute_command whose body is todo!().
StubTypes ==
  {"Touch", "USD", "VEXLinkOpened", "VEXLinkClosed", "ConfigureDevice",
   "AdiInput", "SetBatteryCapacity"}

\* A line of stdin that jsonl::read could not parse: the reader pushes Err.
ReadError == [type |-> "ReadError"]

\* ControllerUpdate payloads (Option<ControllerUpdate>).
NoUpdate == [kind |-> "None"]
RawUpdate(s) == [kind |-> "Raw", state |-> s]
UuidUpdate(u) == [kind |-> "UUID", uuid |-> u]

\* CompetitionMode::default() and another record.
DefaultCompetitionMode ==
  [enabled |-> FALSE, mode |-> "Driver", connected |-> FALSE, is_competition |-> FALSE]
AutoCompetitionMode ==
  [enabled |-> TRUE, mode |-> "Auto", connected |-> TRUE, is_competition |-> FALSE]

\* Text descriptors and metrics the frontend and the guest use.
V5Text(data, family, size) == [data |-> data, font_family |-> family, font_size |-> size]
Strings == {"a", "b"}
Texts == {V5Text(d, "UserMono", "Normal") : d \in Strings}
Narrow == [width |-> 8, height |-> 16]
Wide == [width |-> 16, height |-> 16]
Metrics == {Narrow, Wide}

\* What the frontend may write on one line.
FrontendLines ==
  {Handshake(0, <<>>), Handshake(1, <<>>), Handshake(2, <<"ext">>)}
  \cup {StartExecution, CompetitionModeCmd(AutoCompetitionMode)}
  \cup {SetTextMetrics(t, Narrow) : t \in Texts}
  \cup {Stub("Touch"), Stub("SetBatteryCapacity")}
  \cup {ReadError}

\* ----------------------------------------------------------------- events
HandshakeEvent(v, e) == [type |-> "Handshake", version |-> v, extensions |-> e]
ReadyEvent == [type |-> "Ready"]
VCodeSigEvent(sig) == [type |-> "VCodeSig", sig |-> sig]
LogEvent(level, message) == [type |-> "Log", level |-> level, message |-> message]
TextMetricsRequest(t) == [type |-> "TextMetricsRequest", text |-> t]
ScreenRender == [type |-> "ScreenRender"]
ScreenDoubleBufferMode(en) == [type |-> "ScreenDoubleBufferMode", enable |-> en]
SerialEvent(ch, bytes) == [type |-> "Serial", channel |-> ch, data |-> bytes]
ScreenDraw(command, color, clip_region) ==
  [type |-> "ScreenDraw", command |-> command, color |-> color, clip_region |-> clip_region]
\* DrawCommand::Fill / Stroke / Write, Shape::Rectangle, TextLocation::Coordinates
Fill(shape) == [draw |-> "Fill", shape |-> shape]
Stroke(shape) == [draw |-> "Stroke", shape |-> shape]
Write(text, location, opaque, background) ==
  [draw |-> "Write", text |-> text, location |-> location, opaque |-> opaque,
   background |-> background]
Point(x, y) == [x |-> x, y |-> y]
Rectangle(top_left, bottom_right) ==
  [shape |-> "Rectangle", top_left |-> top_left, bottom_right |-> bottom_right]
Coordinates(point) == [at |-> "Coordinates", point |-> point]

\* ---------------------------------------------------------------- results
Ok(v) == [tag |-> "Ok", val |-> v]
Err(e) == [tag |-> "Err", err |-> e]
Panic(why) == [tag |-> "Panic", err |-> [kind |-> "panic", message |-> why]]
Unit == [unit |-> TRUE]
None == [some |-> FALSE]
Some(x) == [some |-> TRUE, val |-> x]

\* F applied to the value of v, v being evaluated once
With(v, F(_)) == CHOOSE y \in {F(x) : x \in {v}} : TRUE

\* ProtocolError
SendError == [kind |-> "Send"]
RecvError == [kind |-> "Recv"]
RecvWorkerStopped == [kind |-> "RecvWorkerStopped"]
ReceivedInvalidCommandDuringHandshake(c) ==
  [kind |-> "ReceivedInvalidCommandDuringHandshake", command |-> c]
ReceivedHandshakeAttemptAfterHandshakeFinished ==
  [kind |-> "ReceivedHandshakeAttemptAfterHandshakeFinished"]
IncompatibleFrontendVersion(exp, got) ==
  [kind |-> "IncompatibleFrontendVersion", expected |-> exp, got |-> got]
\* anyhow errors raised with bail!/anyhow!
Anyhow(msg) == [kind |-> "anyhow", message |-> msg]

\* ----------------------------------------------------------------- state
VARIABLES
  imply_start,  \* Args::imply_start
  program,      \* the file at Args::program
  pc,           \* where the main thread is
  outcome,      \* how start() ended
  protocol,     \* struct Protocol (and the pipes it talks through)
  sdk,          \* struct SdkState (without its protocol field)
  table,        \* the imported indirect function table: slot i is table[i+1]
  memory,       \* the guest's linear memory: size in pages, bytes written
  guest,        \* the guest's pending host call
  lines,        \* lines the reader thread has read from stdin
  hist          \* history: what reached execute_command, wait_for_command's returns

vars ==
  <<imply_start, program, pc, outcome, protocol, sdk, table, memory,
    guest, lines, hist>>

\* ------------------------------------------------------------- Protocol
\* Protocol::open. inbound holds what the reader thread pushed and the main
\* thread has not yet taken; each entry carries the number of its line.
\* pipe_open is whether a write to stdout still succeeds. recv_log and
\* next_log are history: the line numbers of the commands recv()/try_recv()
\* read from the channel and of those next()/try_next() returned.
Protocol_open ==
  [handshake_finished |-> FALSE,
   outbound |-> <<>>,
   pipe_open |-> TRUE,
   inbound |-> <<>>,
   command_process_queue |-> <<>>,
   recv_log |-> <<>>,
   next_log |-> <<>>]

\* Protocol::send
send(p, event) ==
  IF p.pipe_open
  THEN [p |-> [p EXCEPT !.outbound = Append(@, event)], ret |-> Ok(Unit)]
  ELSE [p |-> p, ret |-> Err(SendError)]

\* recv without the test for a Handshake after the handshake
recv_unchecked(p) ==
  LET m == Head(p.inbound)
      p1 == [p EXCEPT !.inbound = Tail(@)]
  IN IF m.cmd.type = "ReadError" THEN [p |-> p1, ret |-> Err(RecvError)]
     ELSE [p |-> [p1 EXCEPT !.recv_log = Append(@, m.seq)], ret |-> Ok(m)]

\* Protocol::recv, called with a message in the channel (it blocks otherwise).
recv(p) ==
  LET m == Head(p.inbound)
      p1 == [p EXCEPT !.inbound = Tail(@)]
  IN IF m.cmd.type = "ReadError" THEN [p |-> p1, ret |-> Err(RecvError)]
     ELSE IF m.cmd.type = "Handshake" /\ p.handshake_finished
       THEN [p |-> p1, ret |-> Err(ReceivedHandshakeAttemptAfterHandshakeFinished)]
     ELSE [p |-> [p1 EXCEPT !.recv_log = Append(@, m.seq)], ret |-> Ok(m)]

\* Protocol::try_recv
try_recv(p) ==
  IF p.inbound = <<>> THEN [p |-> p, ret |-> Ok(None)]
  ELSE LET m == Head(p.inbound)
           p1 == [p EXCEPT !.inbound = Tail(@)]
       IN IF m.cmd.type = "Handshake" /\ p.handshake_finished
            THEN [p |-> p1, ret |-> Err(ReceivedHandshakeAttemptAfterHandshakeFinished)]
          ELSE IF m.cmd.type = "ReadError" THEN [p |-> p1, ret |-> Err(RecvError)]
          ELSE [p |-> [p1 EXCEPT !.recv_log = Append(@, m.seq)], ret |-> Ok(Some(m))]

\* Protocol::next, called when it does not block.
next(p) ==
  IF p.command_process_queue # <<>>
  THEN LET m == Head(p.command_process_queue)
       IN [p |-> [p EXCEPT !.command_process_queue = Tail(@),
                           !.next_log = Append(@, m.seq)],
           ret |-> Ok(m)]
  ELSE LET r == recv(p)
       IN IF r.ret.tag = "Ok"
          THEN [p |-> [r.p EXCEPT !.next_log = Append(@, r.ret.val.seq)], ret |-> r.ret]
          ELSE r

\* Whether next() returns without waiting for the reader thread.
next_ready(p) == p.command_process_queue # <<>> \/ p.inbound # <<>>

\* try_next reading the channel before the replay queue
try_next_fresh_first(p) ==
  IF p.inbound # <<>>
  THEN LET r == try_recv(p)
       IN IF r.ret.tag = "Ok" /\ r.ret.val.some
          THEN [p |-> [r.p EXCEPT !.next_log = Append(@, r.ret.val.val.seq)], ret |-> r.ret]
          ELSE r
  ELSE IF p.command_process_queue # <<>>
  THEN LET m == Head(p.command_process_queue)
       IN [p |-> [p EXCEPT !.command_process_queue = Tail(@),
                           !.next_log = Append(@, m.seq)],
           ret |-> Ok(Some(m))]
  ELSE [p |-> p, ret |-> Ok(None)]

\* Protocol::try_next
try_next(p) ==
  IF p.command_process_queue # <<>>
  THEN LET m == Head(p.command_process_queue)
       IN [p |-> [p EXCEPT !.command_process_queue = Tail(@),
                           !.next_log = Append(@, m.seq)],
           ret |-> Ok(Some(m))]
  ELSE LET r == try_recv(p)
       IN IF r.ret.tag = "Ok" /\ r.ret.val.some
          THEN [p |-> [r.p EXCEPT !.next_log = Append(@, r.ret.val.val.seq)], ret |-> r.ret]
          ELSE r

\* handshake marking itself finished before it sends the reply
handshake_mark_first(p, implied) ==
  IF p.handshake_finished
  THEN [p |-> p, ret |-> Panic("Attempted to perform handshake twice")]
  ELSE IF implied
  THEN [p |-> [p EXCEPT !.handshake_finished = TRUE], ret |-> Ok(Unit)]
  ELSE
    LET r == next(p)
    IN IF r.ret.tag # "Ok" THEN r
       ELSE LET c == r.ret.val.cmd
            IN IF c.type # "Handshake"
                 THEN [p |-> r.p, ret |-> Err(ReceivedInvalidCommandDuringHandshake(c))]
               ELSE IF c.version < COMPATIBLE_PROTOCOL_VERSION
                 THEN [p |-> r.p,
                       ret |-> Err(IncompatibleFrontendVersion(
                                     COMPATIBLE_PROTOCOL_VERSION, c.version))]
               ELSE send([r.p EXCEPT !.handshake_finished = TRUE],
                         HandshakeEvent(COMPATIBLE_PROTOCOL_VERSION, <<>>))

\* handshake replying before it looks at the command it received
handshake_reply_first(p, implied) ==
  IF p.handshake_finished
  THEN [p |-> p, ret |-> Panic("Attempted to perform handshake twice")]
  ELSE IF implied
  THEN [p |-> [p EXCEPT !.handshake_finished = TRUE], ret |-> Ok(Unit)]
  ELSE
    LET r == next(p)
    IN IF r.ret.tag # "Ok" THEN r
       ELSE LET c == r.ret.val.cmd
                s == send(r.p, HandshakeEvent(COMPATIBLE_PROTOCOL_VERSION, <<>>))
            IN IF s.ret.tag # "Ok" THEN s
               ELSE IF c.type # "Handshake"
                 THEN [p |-> s.p, ret |-> Err(ReceivedInvalidCommandDuringHandshake(c))]
               ELSE IF c.version < COMPATIBLE_PROTOCOL_VERSION
                 THEN [p |-> s.p,
                       ret |-> Err(IncompatibleFrontendVersion(
                                     COMPATIBLE_PROTOCOL_VERSION, c.version))]
               ELSE [p |-> [s.p EXCEPT !.handshake_finished = TRUE], ret |-> Ok(Unit)]

\* Protocol::handshake, called when its next() does not block.
handshake(p, implied) ==
  IF p.handshake_finished
  THEN [p |-> p, ret |-> Panic("Attempted to perform handshake twice")]
  ELSE IF implied
  THEN [p |-> [p EXCEPT !.handshake_finished = TRUE], ret |-> Ok(Unit)]
  ELSE
    LET r == next(p)
    IN IF r.ret.tag # "Ok" THEN r
       ELSE LET c == r.ret.val.cmd
            IN IF c.type # "Handshake"
                 THEN [p |-> r.p, ret |-> Err(ReceivedInvalidCommandDuringHandshake(c))]
               ELSE IF c.version < COMPATIBLE_PROTOCOL_VERSION
                 THEN [p |-> r.p,
                       ret |-> Err(IncompatibleFrontendVersion(
                                     COMPATIBLE_PROTOCOL_VERSION, c.version))]
               ELSE LET s == send(r.p, HandshakeEvent(COMPATIBLE_PROTOCOL_VERSION, <<>>))
                    IN IF s.ret.tag # "Ok" THEN s
                       ELSE [p |-> [s.p EXCEPT !.handshake_finished = TRUE],
                             ret |-> Ok(Unit)]

\* wait_for_command with push_front in place of push_back
wait_for_command_push_front(p, check) ==
  LET r == recv(p)
  IN IF r.ret.tag # "Ok" THEN r
     ELSE IF r.ret.val.cmd \in check THEN [p |-> r.p, ret |-> Ok(Some(r.ret.val))]
     ELSE [p |-> [r.p EXCEPT !.command_process_queue = <<r.ret.val>> \o @],
           ret |-> Ok(None)]

\* wait_for_command forgetting the commands its check rejects
wait_for_command_drop(p, check) ==
  LET r == recv(p)
  IN IF r.ret.tag # "Ok" THEN r
     ELSE IF r.ret.val.cmd \in check THEN [p |-> r.p, ret |-> Ok(Some(r.ret.val))]
     ELSE [p |-> r.p, ret |-> Ok(None)]

\* One turn of the loop of Protocol::wait_for_command, called with a message
\* in the channel: the command is returned (Some) when check accepts it and
\* pushed on the replay queue (None: the loop goes on) when it does not.
\* The closure check is given as the set of commands it accepts.
wait_for_command_turn(p, check) ==
  LET r == recv(p)
  IN IF r.ret.tag # "Ok" THEN r
     ELSE IF r.ret.val.cmd \in check THEN [p |-> r.p, ret |-> Ok(Some(r.ret.val))]
     ELSE [p |-> [r.p EXCEPT !.command_process_queue = Append(@, r.ret.val)],
           ret |-> Ok(None)]

\* Log::log for Protocol and SdkState
log(p, level, message) == send(p, LogEvent(level, message))

\* ------------------------------------------------------------ the program
\* The file at Args::program, as far as start() looks at it: whether it can
\* be read, the data of its .cold_magic custom section (absent: has_cold is
\* FALSE), whether wasmtime compiles and instantiates it, the minimum size
\* of the table it imports, the size of the memory it exports, and whether
\* it imports a table (table_max -1: the table type has no maximum), exports
\* a memory and exports _entry.
HEADER_MAGIC == <<88, 86, 88, 53>>
u32_le(n) == <<n % 256, (n \div 256) % 256, (n \div 65536) % 256, (n \div 16777216) % 256>>
ColdHeader(program_type, owner, flags) ==
  HEADER_MAGIC \o u32_le(program_type) \o u32_le(owner) \o u32_le(flags)

GoodProgram ==
  [readable |-> TRUE, has_cold |-> TRUE, cold |-> ColdHeader(0, 2, 0),
   compiles |-> TRUE, imports_table |-> TRUE, table_min |-> 0, table_max |-> -1,
   exports_memory |-> TRUE, memory_pages |-> 17, exports_entry |-> TRUE]

Programs ==
  {GoodProgram,
   [GoodProgram EXCEPT !.readable = FALSE],
   [GoodProgram EXCEPT !.has_cold = FALSE, !.cold = <<>>],
   [GoodProgram EXCEPT !.cold = <<88, 86>>],
   [GoodProgram EXCEPT !.cold = <<88, 86, 88, 54>> \o u32_le(0) \o u32_le(2) \o u32_le(0)],
   [GoodProgram EXCEPT !.cold = HEADER_MAGIC \o u32_le(0)],
   [GoodProgram EXCEPT !.compiles = FALSE],
   [GoodProgram EXCEPT !.imports_table = FALSE],
   [GoodProgram EXCEPT !.table_max = 0],
   [GoodProgram EXCEPT !.exports_memory = FALSE],
   [GoodProgram EXCEPT !.memory_pages = TARGET_PAGES + 1],
   [GoodProgram EXCEPT !.exports_entry = FALSE]}

NoProgram == [GoodProgram EXCEPT !.readable = FALSE, !.has_cold = FALSE, !.cold = <<>>]

\* A read of the two low bytes only
get_u16_le(bytes, off) == bytes[off + 1] + 256 * bytes[off + 2]

\* Buf::get_u32_le on the four bytes at offset off (0-based) of a byte sequence
get_u32_le(bytes, off) ==
  bytes[off + 1] + 256 * bytes[off + 2] + 65536 * bytes[off + 3] + 16777216 * bytes[off + 4]

\* options & (1 << bit) != 0
bit_set(options, bit) == (options \div (2 ^ bit)) % 2 = 1

BLACK == [r |-> 0, g |-> 0, b |-> 0]
WHITE == [r |-> 255, g |-> 255, b |-> 255]

\* ProgramOptions::default_fg_color / default_bg_color
default_fg_color(o) == IF o.invert_default_graphics_colors THEN BLACK ELSE WHITE
default_bg_color(o) == IF o.invert_default_graphics_colors THEN WHITE ELSE BLACK

NoOptions ==
  [program_type |-> 0, owner |-> 0, invert_default_graphics_colors |-> FALSE,
   kill_threads_when_main_exits |-> FALSE, invert_graphics_based_on_theme |-> FALSE]

\* load_program without the VCodeSig event
load_program_silent(p, prog) ==
  IF ~prog.readable THEN [p |-> p, ret |-> Err(Anyhow("failed to read file"))]
  ELSE IF ~prog.has_cold
    THEN [p |-> p, ret |-> Panic("No cold header found in the program")]
  ELSE IF Len(prog.cold) < Len(HEADER_MAGIC)
    THEN [p |-> p, ret |-> Panic("copy_to_bytes: not enough bytes")]
  ELSE IF SubSeq(prog.cold, 1, Len(HEADER_MAGIC)) # HEADER_MAGIC
    THEN [p |-> p, ret |-> Err(Anyhow("Invalid magic number"))]
  ELSE IF Len(prog.cold) < Len(HEADER_MAGIC) + 12
    THEN [p |-> p, ret |-> Panic("get_u32_le: not enough bytes")]
  ELSE IF ~prog.compiles
    THEN [p |-> p, ret |-> Err(Anyhow("failed to compile module"))]
  ELSE
    LET options == get_u32_le(prog.cold, 12)
    IN [p |-> p,
        ret |-> Ok([program_type |-> get_u32_le(prog.cold, 4),
                    owner |-> get_u32_le(prog.cold, 8),
                    invert_default_graphics_colors |-> bit_set(options, 0),
                    kill_threads_when_main_exits |-> bit_set(options, 1),
                    invert_graphics_based_on_theme |-> bit_set(options, 2)])]

\* load_program: ret is Ok(ProgramOptions), an error or a panic.
load_program(p, prog) ==
  IF ~prog.readable THEN [p |-> p, ret |-> Err(Anyhow("failed to read file"))]
  ELSE IF ~prog.has_cold
    THEN [p |-> p, ret |-> Panic("No cold header found in the program")]
  ELSE IF Len(prog.cold) < Len(HEADER_MAGIC)
    THEN [p |-> p, ret |-> Panic("copy_to_bytes: not enough bytes")]
  ELSE IF SubSeq(prog.cold, 1, Len(HEADER_MAGIC)) # HEADER_MAGIC
    THEN [p |-> p, ret |-> Err(Anyhow("Invalid magic number"))]
  ELSE
    LET s == send(p, VCodeSigEvent(prog.cold))
    IN IF s.ret.tag # "Ok" THEN s
       ELSE IF Len(prog.cold) < Len(HEADER_MAGIC) + 12
         THEN [p |-> s.p, ret |-> Panic("get_u32_le: not enough bytes")]
       ELSE IF ~prog.compiles
         THEN [p |-> s.p, ret |-> Err(Anyhow("failed to compile module"))]
       ELSE
         LET options == get_u32_le(prog.cold, 12)
         IN [p |-> s.p,
             ret |-> Ok([program_type |-> get_u32_le(prog.cold, 4),
                         owner |-> get_u32_le(prog.cold, 8),
                         invert_default_graphics_colors |-> bit_set(options, 0),
                         kill_threads_when_main_exits |-> bit_set(options, 1),
                         invert_graphics_based_on_theme |-> bit_set(options, 2)])]

\* --------------------------------------------------------------- SdkState
HEADER_BG == [r |-> 0, g |-> 153, b |-> 204]
DISPLAY_HEIGHT == 272
DISPLAY_WIDTH == 480
HEADER_HEIGHT == 32

\* Display::new
Display_new(program_options) ==
  [foreground_color |-> default_fg_color(program_options),
   background_color |-> default_bg_color(program_options),
   text_metrics_cache |-> None,
   last_font_size |-> "Normal",
   double_buffered |-> FALSE,
   clip_region |-> [top_left |-> [x |-> 0, y |-> HEADER_HEIGHT],
                    bottom_right |-> [x |-> DISPLAY_WIDTH, y |-> DISPLAY_HEIGHT]]]

\* Cursor::new([0; N]): buf is the written prefix of the array
Cursor_new == [buf |-> <<>>, pos |-> 0]

\* Serial::new
Serial_new == [stdout_buffer |-> Cursor_new, stdin_buffer |-> Cursor_new]

\* Inputs::new: both controller slots empty
Inputs_new == [controllers |-> <<None, None>>]

\* SdkState::new
SdkState_new(program_options) ==
  [display |-> Display_new(program_options),
   program_options |-> program_options,
   inputs |-> Inputs_new,
   competition_mode |-> DefaultCompetitionMode,
   is_executing |-> FALSE,
   serial |-> Serial_new]

\* A write that does not stop at the end of the array
Cursor_write_over(c, bytes, cap) ==
  [c |-> [buf |-> SubSeq(c.buf, 1, c.pos) \o bytes, pos |-> c.pos + Len(bytes)],
   count |-> Len(bytes)]

\* Write for Cursor<[u8; N]>: the bytes that fit are written at the cursor
Cursor_write(c, bytes, cap) ==
  LET n == IF Len(bytes) <= cap - c.pos THEN Len(bytes) ELSE cap - c.pos
      len == IF c.pos + n > Len(c.buf) THEN c.pos + n ELSE Len(c.buf)
  IN [c |-> [buf |-> [i \in 1..len |->
                        IF i > c.pos /\ i <= c.pos + n THEN bytes[i - c.pos]
                        ELSE c.buf[i]],
             pos |-> c.pos + n],
      count |-> n]

\* Write::write_all for the cursor: what fits is written, and the call fails
\* with WriteZero when that is not everything
Cursor_write_all(c, bytes, cap) ==
  LET w == Cursor_write(c, bytes, cap)
  IN [c |-> w.c, ret |-> IF w.count = Len(bytes) THEN Ok(Unit)
                         ELSE Err(Anyhow("failed to write whole buffer"))]

\* Serial::buffer_input
buffer_input(serial, channel, buffer) ==
  IF channel = 1
  THEN LET w == Cursor_write_all(serial.stdin_buffer, buffer, STDIN_BUFFER_SIZE)
       IN [serial |-> [serial EXCEPT !.stdin_buffer = w.c], ret |-> w.ret]
  ELSE [serial |-> serial, ret |-> Err(Anyhow("Invalid channel"))]

\* Serial::write whatever the channel
Serial_write_any(serial, channel, buffer) ==
  LET w == Cursor_write(serial.stdout_buffer, buffer, STDOUT_BUFFER_SIZE)
  IN [serial |-> [serial EXCEPT !.stdout_buffer = w.c], ret |-> Ok(w.count)]

\* Serial::write
Serial_write(serial, channel, buffer) ==
  IF channel = 1
  THEN LET w == Cursor_write(serial.stdout_buffer, buffer, STDOUT_BUFFER_SIZE)
       IN [serial |-> [serial EXCEPT !.stdout_buffer = w.c], ret |-> Ok(w.count)]
  ELSE [serial |-> serial, ret |-> Err(Anyhow("Invalid channel"))]

\* Serial::write_all
Serial_write_all(serial, channel, buffer) ==
  IF channel = 1
  THEN LET w == Cursor_write_all(serial.stdout_buffer, buffer, STDOUT_BUFFER_SIZE)
       IN [serial |-> [serial EXCEPT !.stdout_buffer = w.c], ret |-> w.ret]
  ELSE [serial |-> serial, ret |-> Err(Anyhow("Invalid channel"))]

\* vex_vprintf (0x0f0). fmt is what read_c_string finds at format_ptr
\* (readable: a NUL-terminated string) and what format() makes of it and of
\* the arguments: ok FALSE when it returns -1, else the bytes of its output.
vex_vprintf(serial, fmt) ==
  IF ~fmt.readable THEN [serial |-> serial, ret |-> Err(Anyhow("FromBytesUntilNulError"))]
  ELSE IF ~fmt.ok THEN [serial |-> serial, ret |-> Ok(-1)]
  ELSE LET w == Serial_write_all(serial, 1, fmt.bytes)
       IN [serial |-> w.serial,
           ret |-> IF w.ret.tag # "Ok" THEN Ok(-1) ELSE Ok(Len(fmt.bytes))]

\* A peek at the oldest byte of the input buffer
peek_byte_oldest(serial, channel) ==
  IF channel # 1 THEN Err(Anyhow("Invalid channel"))
  ELSE IF serial.stdin_buffer.pos = 0 THEN Err(Anyhow("No data in stdin buffer"))
  ELSE Ok(serial.stdin_buffer.buf[1])

\* Serial::peek_byte
peek_byte(serial, channel) ==
  IF channel # 1 THEN Err(Anyhow("Invalid channel"))
  ELSE IF serial.stdin_buffer.pos = 0 THEN Err(Anyhow("No data in stdin buffer"))
  ELSE Ok(serial.stdin_buffer.buf[serial.stdin_buffer.pos])

\* Serial::read_byte
read_byte(serial, channel) ==
  IF channel # 1 THEN [serial |-> serial, ret |-> Err(Anyhow("Invalid channel"))]
  ELSE LET byte == peek_byte(serial, channel)
       IN IF byte.tag # "Ok" THEN [serial |-> serial, ret |-> byte]
          ELSE [serial |-> [serial EXCEPT !.stdin_buffer.pos = @ - 1], ret |-> byte]

\* Serial::num_free_bytes
num_free_bytes(serial, channel) ==
  IF channel = 1 THEN Ok(STDOUT_BUFFER_SIZE - serial.stdout_buffer.pos)
  ELSE Err(Anyhow("Invalid channel"))

\* The closures build_serial_jump_table registers; ret is the i32 the guest
\* gets. vexSerialWriteBuffer is given the bytes of memory[data..data + len].
vexSerialWriteChar(serial, channel, c) ==
  LET written == Serial_write(serial, channel, <<c % 256>>)
  IN [serial |-> written.serial,
      ret |-> IF written.ret.tag = "Ok" THEN written.ret.val ELSE -1]
vexSerialWriteBuffer(serial, channel, buffer) ==
  LET written == Serial_write(serial, channel, buffer)
  IN [serial |-> written.serial,
      ret |-> IF written.ret.tag = "Ok" THEN written.ret.val ELSE -1]
vexSerialReadChar(serial, channel) ==
  LET byte == read_byte(serial, channel)
  IN [serial |-> byte.serial, ret |-> IF byte.ret.tag = "Ok" THEN byte.ret.val ELSE -1]
vexSerialPeekChar(serial, channel) ==
  LET byte == peek_byte(serial, channel)
  IN [serial |-> serial, ret |-> IF byte.tag = "Ok" THEN byte.val ELSE -1]
vexSerialWriteFree(serial, channel) ==
  LET num_free == num_free_bytes(serial, channel)
  IN [serial |-> serial, ret |-> IF num_free.tag = "Ok" THEN num_free.val ELSE 0]

\* Guid::from_string succeeds on these strings
ValidGuids == {"030000005e0400008e02000010010000"}

\* ControllerState::default()
DefaultControllerState ==
  [axis1 |-> 0, axis2 |-> 0, axis3 |-> 0, axis4 |-> 0, button_a |-> FALSE]

\* set_controller clearing the slot of an update whose GUID does not parse
set_controller_clear(inputs, id, update) ==
  IF id >= 2 THEN [inputs |-> inputs, ret |-> Panic("Invalid controller index")]
  ELSE IF update.kind = "None"
    THEN [inputs |-> [inputs EXCEPT !.controllers[id + 1] = None], ret |-> Ok(Unit)]
  ELSE IF update.kind = "Raw"
    THEN [inputs |-> [inputs EXCEPT !.controllers[id + 1] =
                        Some([current_state |-> update.state, sdl_guid |-> None,
                              sdl_controller |-> None])],
          ret |-> Ok(Unit)]
  ELSE IF update.uuid \notin ValidGuids
    THEN [inputs |-> [inputs EXCEPT !.controllers[id + 1] = None],
          ret |-> Err(Anyhow("invalid guid"))]
  ELSE [inputs |-> [inputs EXCEPT !.controllers[id + 1] =
                      Some([current_state |-> DefaultControllerState,
                            sdl_guid |-> Some(update.uuid),
                            sdl_controller |-> None])],
        ret |-> Ok(Unit)]

\* Inputs::set_controller; id is 0 or 1
set_controller(inputs, id, update) ==
  IF id >= 2 THEN [inputs |-> inputs, ret |-> Panic("Invalid controller index")]
  ELSE IF update.kind = "None"
    THEN [inputs |-> [inputs EXCEPT !.controllers[id + 1] = None], ret |-> Ok(Unit)]
  ELSE IF update.kind = "Raw"
    THEN [inputs |-> [inputs EXCEPT !.controllers[id + 1] =
                        Some([current_state |-> update.state, sdl_guid |-> None,
                              sdl_controller |-> None])],
          ret |-> Ok(Unit)]
  ELSE IF update.uuid \notin ValidGuids
    THEN [inputs |-> inputs, ret |-> Err(Anyhow("invalid guid"))]
  ELSE [inputs |-> [inputs EXCEPT !.controllers[id + 1] =
                      Some([current_state |-> DefaultControllerState,
                            sdl_guid |-> Some(update.uuid),
                            sdl_controller |-> None])],
        ret |-> Ok(Unit)]

\* set_metrics_cache leaving alone a cache that holds an entry
set_metrics_cache_keep(display, text, metrics) ==
  IF display.text_metrics_cache.some THEN display
  ELSE [display EXCEPT !.text_metrics_cache = Some(<<text, metrics>>)]

\* Display::set_metrics_cache
set_metrics_cache(display, text, metrics) ==
  [display EXCEPT !.text_metrics_cache = Some(<<text, metrics>>)]

\* execute_command without the test StartExecution makes of is_executing
execute_command_restart(s, cmd) ==
  CASE cmd.type = "Handshake" ->
         [sdk |-> s, ret |-> Panic("unreachable")]
    [] cmd.type \in StubTypes ->
         [sdk |-> s, ret |-> Panic("not yet implemented")]
    [] cmd.type = "ControllerUpdate" ->
         LET a == set_controller(s.inputs, 0, cmd.primary)
         IN IF a.ret.tag # "Ok" THEN [sdk |-> [s EXCEPT !.inputs = a.inputs], ret |-> a.ret]
            ELSE LET b == set_controller(a.inputs, 1, cmd.partner)
                 IN [sdk |-> [s EXCEPT !.inputs = b.inputs], ret |-> b.ret]
    [] cmd.type = "CompetitionMode" ->
         [sdk |-> [s EXCEPT !.competition_mode = cmd.mode], ret |-> Ok(Unit)]
    [] cmd.type = "StartExecution" ->
         [sdk |-> [s EXCEPT !.is_executing = TRUE], ret |-> Ok(Unit)]
    [] cmd.type = "SetTextMetrics" ->
         [sdk |-> [s EXCEPT !.display = set_metrics_cache(@, cmd.text, cmd.metrics)],
          ret |-> Ok(Unit)]
    [] cmd.type = "Serial" ->
         IF ~cmd.data.ok
         THEN [sdk |-> s, ret |-> Err(Anyhow("invalid serial data"))]
         ELSE LET b == buffer_input(s.serial, cmd.channel, cmd.data.bytes)
              IN [sdk |-> [s EXCEPT !.serial = b.serial], ret |-> b.ret]

\* SdkState::execute_command
execute_command(s, cmd) ==
  CASE cmd.type = "Handshake" ->
         [sdk |-> s, ret |-> Panic("unreachable")]
    [] cmd.type \in StubTypes ->
         [sdk |-> s, ret |-> Panic("not yet implemented")]
    [] cmd.type = "ControllerUpdate" ->
         LET a == set_controller(s.inputs, 0, cmd.primary)
         IN IF a.ret.tag # "Ok" THEN [sdk |-> [s EXCEPT !.inputs = a.inputs], ret |-> a.ret]
            ELSE LET b == set_controller(a.inputs, 1, cmd.partner)
                 IN [sdk |-> [s EXCEPT !.inputs = b.inputs], ret |-> b.ret]
    [] cmd.type = "CompetitionMode" ->
         [sdk |-> [s EXCEPT !.competition_mode = cmd.mode], ret |-> Ok(Unit)]
    [] cmd.type = "StartExecution" ->
         IF s.is_executing
         THEN [sdk |-> s, ret |-> Err(Anyhow("Cannot start execution twice"))]
         ELSE [sdk |-> [s EXCEPT !.is_executing = TRUE], ret |-> Ok(Unit)]
    [] cmd.type = "SetTextMetrics" ->
         [sdk |-> [s EXCEPT !.display = set_metrics_cache(@, cmd.text, cmd.metrics)],
          ret |-> Ok(Unit)]
    [] cmd.type = "Serial" ->
         IF ~cmd.data.ok
         THEN [sdk |-> s, ret |-> Err(Anyhow("invalid serial data"))]
         ELSE LET b == buffer_input(s.serial, cmd.channel, cmd.data.bytes)
              IN [sdk |-> [s EXCEPT !.serial = b.serial], ret |-> b.ret]

\* History of the commands handed to execute_command: the number of the line
\* each came on (0: the StartExecution of the --imply-start flag).
\* accepted: the bytes Serial::write took since the last run_tasks; input: the
\* bytes buffer_input took and read_byte has not yet returned, oldest first.
NoHist == [executed |-> <<>>, waits |-> <<>>, accepted |-> <<>>, input |-> <<>>]

\* The history once message m was handed to execute_command, which returned ret
Executed(h, m, ret) ==
  [h EXCEPT !.executed = Append(@, m.seq),
            !.input = IF m.cmd.type = "Serial" /\ ret.tag = "Ok"
                      THEN @ \o m.cmd.data.bytes ELSE @]

\* recv_command dropping the command it received
recv_command_discard(p, s, h) ==
  LET r == next(p)
  IN IF r.ret.tag # "Ok" THEN [p |-> r.p, sdk |-> s, hist |-> h, ret |-> r.ret]
     ELSE [p |-> r.p, sdk |-> s, hist |-> h, ret |-> Ok(Unit)]

\* SdkState::recv_command, called when next() does not block
recv_command(p, s, h) ==
  LET r == next(p)
  IN IF r.ret.tag # "Ok" THEN [p |-> r.p, sdk |-> s, hist |-> h, ret |-> r.ret]
     ELSE LET e == execute_command(s, r.ret.val.cmd)
          IN [p |-> r.p, sdk |-> e.sdk,
              hist |-> Executed(h, r.ret.val, e.ret),
              ret |-> e.ret]

\* SdkState::recv_all_commands
RECURSIVE recv_all_commands(_, _, _)
recv_all_commands(p, s, h) ==
  With(try_next(p), LAMBDA r :
    IF r.ret.tag # "Ok" THEN [p |-> r.p, sdk |-> s, hist |-> h, ret |-> r.ret]
    ELSE IF ~r.ret.val.some THEN [p |-> r.p, sdk |-> s, hist |-> h, ret |-> Ok(Unit)]
    ELSE With(execute_command(s, r.ret.val.val.cmd), LAMBDA e :
           IF e.ret.tag # "Ok"
           THEN [p |-> r.p, sdk |-> e.sdk,
                 hist |-> Executed(h, r.ret.val.val, e.ret),
                 ret |-> e.ret]
           ELSE recv_all_commands(r.p, e.sdk, Executed(h, r.ret.val.val, e.ret))))

\* A flush that leaves the output buffer as it is
flush_keep(serial, p) ==
  IF serial.stdout_buffer.pos = 0 THEN [serial |-> serial, p |-> p, ret |-> Ok(Unit)]
  ELSE LET bytes == SubSeq(serial.stdout_buffer.buf, 1, serial.stdout_buffer.pos)
           s == send(p, SerialEvent(1, bytes))
       IN [serial |-> serial, p |-> s.p, ret |-> s.ret]

\* Serial::flush
flush(serial, p) ==
  IF serial.stdout_buffer.pos = 0 THEN [serial |-> serial, p |-> p, ret |-> Ok(Unit)]
  ELSE LET bytes == SubSeq(serial.stdout_buffer.buf, 1, serial.stdout_buffer.pos)
           s == send(p, SerialEvent(1, bytes))
       IN [serial |-> [serial EXCEPT !.stdout_buffer = Cursor_new], p |-> s.p, ret |-> s.ret]

\* Inputs::update: the event pump is pumped and each slot bound to a device
\* GUID is refreshed from SDL; sdl is what SDL reports for that device.
ControllerStateA ==
  [axis1 |-> 50, axis2 |-> -20, axis3 |-> 7, axis4 |-> -127, button_a |-> TRUE]
ControllerStateB ==
  [axis1 |-> -127, axis2 |-> 127, axis3 |-> -1, axis4 |-> 33, button_a |-> FALSE]
SdlWorld == {[attached |-> FALSE, state |-> ControllerStateA],
             [attached |-> TRUE, state |-> ControllerStateA]}
\* An update that refreshes from SDL every slot that is set
Inputs_update_all(inputs, sdl) ==
  [inputs |->
     [inputs EXCEPT !.controllers =
        [i \in 1..2 |->
           LET c == inputs.controllers[i]
           IN IF ~c.some THEN c
              ELSE IF sdl.attached THEN Some([c.val EXCEPT !.current_state = sdl.state])
              ELSE c]],
   ret |-> Ok(Unit)]

Inputs_update(inputs, sdl) ==
  [inputs |->
     [inputs EXCEPT !.controllers =
        [i \in 1..2 |->
           LET c == inputs.controllers[i]
           IN IF ~c.some THEN c
              ELSE IF ~c.val.sdl_guid.some THEN c
              ELSE IF sdl.attached
                THEN Some([c.val EXCEPT !.sdl_controller = Some(c.val.sdl_guid.val),
                                        !.current_state = sdl.state])
              ELSE Some([c.val EXCEPT !.sdl_controller = None])]],
   ret |-> Ok(Unit)]

\* A controller that hands out a slot bound to a device whether or not the
\* device is there
controller_keep(inputs, id, discover, sdl) ==
  IF id >= 2 THEN [inputs |-> inputs, ret |-> Err(Anyhow("Invalid controller id"))]
  ELSE IF ~inputs.controllers[id + 1].some THEN [inputs |-> inputs, ret |-> Ok(None)]
  ELSE [inputs |-> inputs, ret |-> Ok(Some(inputs.controllers[id + 1].val))]

\* Inputs::controller; sdl is what SDL reports of the device when it is asked
\* (attached() of the open controller, the search of the joysticks)
controller(inputs, id, discover, sdl) ==
  IF id >= 2 THEN [inputs |-> inputs, ret |-> Err(Anyhow("Invalid controller id"))]
  ELSE LET c == inputs.controllers[id + 1]
       IN IF ~c.some THEN [inputs |-> inputs, ret |-> Ok(None)]
          ELSE IF ~c.val.sdl_guid.some THEN [inputs |-> inputs, ret |-> Ok(Some(c.val))]
          ELSE IF c.val.sdl_controller.some /\ sdl.attached
            THEN [inputs |-> inputs, ret |-> Ok(Some(c.val))]
          ELSE IF discover /\ sdl.attached
            THEN LET d == [c.val EXCEPT !.sdl_controller = Some(c.val.sdl_guid.val)]
                 IN [inputs |-> [inputs EXCEPT !.controllers[id + 1] = Some(d)],
                     ret |-> Ok(Some(d))]
          ELSE [inputs |-> [inputs EXCEPT !.controllers[id + 1].val.sdl_controller = None],
                ret |-> Ok(None)]

\* Inputs::connected
connected(inputs, id, sdl) ==
  LET c == controller(inputs, id, FALSE, sdl)
  IN IF c.ret.tag # "Ok" THEN c ELSE [inputs |-> c.inputs, ret |-> Ok(c.ret.val.some)]

\* vexControllerGet reading the field that the alias of the index names
\* (Axis1 = 2, Axis2 = 3, Axis3 = 1, Axis4 = 0)
vexControllerGet_alias(inputs, id, index, sdl) ==
  LET c == controller(inputs, id, FALSE, sdl)
  IN IF c.ret.tag # "Ok" THEN c
     ELSE IF ~c.ret.val.some THEN [inputs |-> c.inputs, ret |-> Ok(0)]
     ELSE [inputs |-> c.inputs,
           ret |-> CASE index = 0 -> Ok(c.ret.val.val.current_state.axis4)
                     [] index = 1 -> Ok(c.ret.val.val.current_state.axis3)
                     [] index = 2 -> Ok(c.ret.val.val.current_state.axis1)
                     [] index = 3 -> Ok(c.ret.val.val.current_state.axis2)
                     [] index = 17 ->
                          Ok(IF c.ret.val.val.current_state.button_a THEN 1 ELSE 0)
                     [] index > 22 -> Err(Anyhow("Invalid controller index"))]

\* vexControllerGet (0x1a4), for the indexes AnaLeftX = 0, AnaLeftY = 1,
\* AnaRightX = 2, AnaRightY = 3 and ButtonA = 17 and for those that are no
\* V5_ControllerIndex (above BatteryCapacity = 22)
vexControllerGet(inputs, id, index, sdl) ==
  LET c == controller(inputs, id, FALSE, sdl)
  IN IF c.ret.tag # "Ok" THEN c
     ELSE IF ~c.ret.val.some THEN [inputs |-> c.inputs, ret |-> Ok(0)]
     ELSE [inputs |-> c.inputs,
           ret |-> CASE index = 0 -> Ok(c.ret.val.val.current_state.axis1)
                     [] index = 1 -> Ok(c.ret.val.val.current_state.axis2)
                     [] index = 2 -> Ok(c.ret.val.val.current_state.axis4)
                     [] index = 3 -> Ok(c.ret.val.val.current_state.axis3)
                     [] index = 17 ->
                          Ok(IF c.ret.val.val.current_state.button_a THEN 1 ELSE 0)
                     [] index > 22 -> Err(Anyhow("Invalid controller index"))]

\* vexControllerConnectionStatusGet (0x1a8)
vexControllerConnectionStatusGet(inputs, id, sdl) ==
  LET c == connected(inputs, id, sdl)
  IN IF c.ret.tag # "Ok" THEN c
     ELSE [inputs |-> c.inputs, ret |-> Ok(IF c.ret.val THEN 1 ELSE 0)]

\* A status whose DISABLED bit is set while the robot is enabled
vexCompetitionStatus_enabled(status) ==
  (IF status.enabled THEN 1 ELSE 0) + (IF status.mode = "Auto" THEN 2 ELSE 0)
  + (IF status.connected THEN 4 ELSE 0) + (IF status.is_competition THEN 8 ELSE 0)

\* vexCompetitionStatus (0x9d8): the bits of CompetitionStatus, DISABLED = 1,
\* AUTONOMOUS = 2, CONNECTED = 4, SYSTEM = 8
vexCompetitionStatus(status) ==
  (IF ~status.enabled THEN 1 ELSE 0) + (IF status.mode = "Auto" THEN 2 ELSE 0)
  + (IF status.connected THEN 4 ELSE 0) + (IF status.is_competition THEN 8 ELSE 0)

\* run_tasks with the flush of the serial output as its first step
run_tasks_flush_first(p, s, h, sdl) ==
  With(flush(s.serial, p), LAMBDA f :
    IF f.ret.tag # "Ok" THEN [p |-> f.p, sdk |-> s, hist |-> h, ret |-> f.ret]
    ELSE With(recv_all_commands(f.p, [s EXCEPT !.serial = f.serial], h), LAMBDA a :
           IF a.ret.tag # "Ok" THEN a
           ELSE [p |-> a.p,
                 sdk |-> [a.sdk EXCEPT !.inputs = Inputs_update(a.sdk.inputs, sdl).inputs],
                 hist |-> a.hist,
                 ret |-> a.ret]))

\* SdkState::run_tasks
run_tasks(p, s, h, sdl) ==
  With(recv_all_commands(p, s, h), LAMBDA a :
    IF a.ret.tag # "Ok" THEN a
    ELSE With(flush(a.sdk.serial, a.p), LAMBDA f :
           [p |-> f.p,
            sdk |-> [a.sdk EXCEPT !.inputs = Inputs_update(a.sdk.inputs, sdl).inputs,
                                  !.serial = f.serial],
            hist |-> a.hist,
            ret |-> f.ret]))

\* set_double_buffered without the test of the stored flag
set_double_buffered_always(display, p, enable) ==
  LET s == send(p, ScreenDoubleBufferMode(enable))
  IN [display |-> [display EXCEPT !.double_buffered = enable], p |-> s.p, ret |-> s.ret]

\* DisplayCtx::set_double_buffered
set_double_buffered(display, p, enable) ==
  IF display.double_buffered = enable THEN [display |-> display, p |-> p, ret |-> Ok(Unit)]
  ELSE LET s == send(p, ScreenDoubleBufferMode(enable))
       IN [display |-> [display EXCEPT !.double_buffered = enable], p |-> s.p, ret |-> s.ret]

\* render without the call of set_double_buffered
render_plain(display, p) ==
  LET s == send(p, ScreenRender)
  IN [display |-> display, p |-> s.p, ret |-> s.ret]

\* DisplayCtx::render
render(display, p) ==
  LET d == set_double_buffered(display, p, TRUE)
  IN IF d.ret.tag # "Ok" THEN d
     ELSE LET s == send(d.p, ScreenRender)
          IN [display |-> d.display, p |-> s.p, ret |-> s.ret]

\* DisplayCtx::draw
draw(display, p, shape, stroke, erase) ==
  LET s == send(p, ScreenDraw(IF stroke THEN Stroke(shape) ELSE Fill(shape),
                              IF erase THEN display.background_color
                              ELSE display.foreground_color,
                              display.clip_region))
  IN [display |-> display, p |-> s.p, ret |-> s.ret]

\* DisplayCtx::write
write(display, p, text, location, opaque) ==
  LET d == [display EXCEPT !.last_font_size = text.font_size]
      s == send(p, ScreenDraw(Write(text, location, opaque, d.background_color),
                              d.foreground_color, d.clip_region))
  IN [display |-> d, p |-> s.p, ret |-> s.ret]

\* RGB8 { r: (col >> 16) as u8, g: (col >> 8) as u8, b: col as u8 }
unpack_rgb(col) ==
  [r |-> (col \div 65536) % 256, g |-> (col \div 256) % 256, b |-> col % 256]
\* (color.r as u32) << 16 | (color.g as u32) << 8 | color.b as u32
pack_rgb(color) == color.r * 65536 + color.g * 256 + color.b

\* A colour setter that stores the colour in both fields
vexDisplayForegroundColor_both(display, col) ==
  [display EXCEPT !.foreground_color = unpack_rgb(col), !.background_color = unpack_rgb(col)]

\* vexDisplayForegroundColor (0x640), vexDisplayBackgroundColor (0x644)
vexDisplayForegroundColor(display, col) ==
  [display EXCEPT !.foreground_color = unpack_rgb(col)]
vexDisplayBackgroundColor(display, col) ==
  [display EXCEPT !.background_color = unpack_rgb(col)]
\* vexDisplayForegroundColorGet (0x6b8), vexDisplayBackgroundColorGet (0x6bc)
vexDisplayForegroundColorGet(display) == pack_rgb(display.foreground_color)
vexDisplayBackgroundColorGet(display) == pack_rgb(display.background_color)

\* i32::clamp(min, max)
clamp(v, min, max) == IF v < min THEN min ELSE IF v > max THEN max ELSE v

\* A set_clip_region that stores its arguments as they are
set_clip_region_raw(display, x1, y1, x2, y2) ==
  [display EXCEPT !.clip_region =
     [top_left |-> Point(x1, y1), bottom_right |-> Point(x2, y2)]]

\* Display::set_clip_region
set_clip_region(display, x1, y1, x2, y2) ==
  [display EXCEPT !.clip_region =
     [top_left |-> Point(clamp(x1, 0, DISPLAY_WIDTH),
                         clamp(y1, HEADER_HEIGHT, DISPLAY_HEIGHT)),
      bottom_right |-> Point(clamp(x2, 0, DISPLAY_WIDTH),
                             clamp(y2, HEADER_HEIGHT, DISPLAY_HEIGHT))]]

\* warn_bt!: the message and then the backtrace, both as Warn logs
warn_bt(p, message) ==
  LET a == log(p, "Warn", message)
  IN IF a.ret.tag # "Ok" THEN a ELSE log(a.p, "Warn", "backtrace")

\* vexDisplayClipRegionSetWithIndex (0x7a8)
vexDisplayClipRegionSetWithIndex(display, p, index, x1, y1, x2, y2) ==
  IF index # 0
  THEN LET w == warn_bt(p, "vexDisplayClipRegionSetWithIndex: the only supported index is 0")
       IN [display |-> display, p |-> w.p, ret |-> w.ret]
  ELSE [display |-> set_clip_region(display, x1, y1, x2, y2), p |-> p, ret |-> Ok(Unit)]

\* vexDisplayVPrintf (0x680); format is the string clone_c_string read at
\* format_ptr, "Default" the Default::default() of the font family and size
vexDisplayVPrintf(display, p, x_pos, y_pos, opaque, format) ==
  write(display, p, V5Text(format, "Default", "Default"),
        Coordinates(Point(x_pos, y_pos)), opaque = 0)

\* format!("{:01}:{:02}", mins, secs), as the sequence of its characters
Digits == <<"0", "1", "2", "3", "4", "5", "6", "7", "8", "9">>
RECURSIVE Decimal(_)
Decimal(n) == IF n < 10 THEN <<Digits[n + 1]>> ELSE Decimal(n \div 10) \o <<Digits[(n % 10) + 1]>>
TimerString(elapsed) ==
  LET secs == elapsed % 60
      mins == elapsed \div 60
  IN Decimal(mins) \o <<":">> \o (IF secs < 10 THEN <<"0">> ELSE <<>>) \o Decimal(secs)

\* DisplayCtx::draw_header, the draw being made inside with_colors(HEADER_BG,
\* RGB8::default()); elapsed is start_instant.elapsed().as_secs(). No
\* function of the program calls it.
draw_header(display, p, elapsed) ==
  LET inner == [display EXCEPT !.foreground_color = HEADER_BG,
                               !.background_color = [r |-> 0, g |-> 0, b |-> 0]]
      f == draw(inner, p, Rectangle(Point(0, 0), Point(DISPLAY_WIDTH, HEADER_HEIGHT)),
                FALSE, FALSE)
      restored == [f.display EXCEPT !.foreground_color = display.foreground_color,
                                    !.background_color = display.background_color]
  IN IF f.ret.tag # "Ok" THEN [display |-> restored, p |-> f.p, ret |-> f.ret]
     ELSE write(restored, f.p, V5Text(TimerString(elapsed), "TimerMono", "Large"),
                Coordinates(Point(DISPLAY_WIDTH \div 2, 3)), TRUE)

\* A closure that accepts the metrics of any text
metrics_reply_any(text) == {SetTextMetrics(t, m) : t \in Texts, m \in Metrics}

\* A closure that accepts a reply only when its metrics are the narrow ones
metrics_reply_narrow(text) == {SetTextMetrics(text, Narrow)}

\* The closure get_text_metrics passes to wait_for_command
metrics_reply(text) == {SetTextMetrics(text, m) : m \in Metrics}

\* ------------------------------------------------------------- JumpTable
\* The insert calls of JumpTable::new and of the build_*_jump_table functions
\* it calls, in the order they are made.
ApiFunctions ==
  << [address |-> 1600, func |-> "vexDisplayForegroundColor"],
     [address |-> 1604, func |-> "vexDisplayBackgroundColor"],
     [address |-> 1608, func |-> "vexDisplayErase"],
     [address |-> 1612, func |-> "vexDisplayScroll"],
     [address |-> 1616, func |-> "vexDisplayScrollRect"],
     [address |-> 1620, func |-> "vexDisplayCopyRect"],
     [address |-> 1624, func |-> "vexDisplayPixelSet"],
     [address |-> 1628, func |-> "vexDisplayPixelClear"],
     [address |-> 1632, func |-> "vexDisplayLineDraw"],
     [address |-> 1636, func |-> "vexDisplayLineClear"],
     [address |-> 1640, func |-> "vexDisplayRectDraw"],
     [address |-> 1644, func |-> "vexDisplayRectClear"],
     [address |-> 1648, func |-> "vexDisplayRectFill"],
     [address |-> 1652, func |-> "vexDisplayCircleDraw"],
     [address |-> 1656, func |-> "vexDisplayCircleClear"],
     [address |-> 1660, func |-> "vexDisplayCircleFill"],
     [address |-> 1704, func |-> "vexDisplayTextSize"],
     [address |-> 1716, func |-> "vexDisplayFontNamedSet"],
     [address |-> 1720, func |-> "vexDisplayForegroundColorGet"],
     [address |-> 1724, func |-> "vexDisplayBackgroundColorGet"],
     [address |-> 1940, func |-> "vexDisplayClipRegionSet"],
     [address |-> 1952, func |-> "vexDisplayRender"],
     [address |-> 1956, func |-> "vexDisplayDoubleBufferDisable"],
     [address |-> 1960, func |-> "vexDisplayClipRegionSetWithIndex"],
     [address |-> 2448, func |-> "vexImageBmpRead"],
     [address |-> 1728, func |-> "vexDisplayStringWidthGet"],
     [address |-> 1732, func |-> "vexDisplayStringHeightGet"],
     [address |-> 1664, func |-> "vexDisplayVPrintf"],
     [address |-> 1668, func |-> "vexDisplayVString"],
     [address |-> 1672, func |-> "vexDisplayVStringAt"],
     [address |-> 1712, func |-> "vexDisplayVSmallStringAt"],
     [address |-> 420, func |-> "vexControllerGet"],
     [address |-> 424, func |-> "vexControllerConnectionStatusGet"],
     [address |-> 2200, func |-> "vexSerialWriteChar"],
     [address |-> 2204, func |-> "vexSerialWriteBuffer"],
     [address |-> 2208, func |-> "vexSerialReadChar"],
     [address |-> 2212, func |-> "vexSerialPeekChar"],
     [address |-> 2220, func |-> "vexSerialWriteFree"],
     [address |-> 240, func |-> "vex_vprintf"],
     [address |-> 244, func |-> "vex_vsprintf"],
     [address |-> 248, func |-> "vex_vsnprintf"],
     [address |-> 92, func |-> "vexTasksRun"],
     [address |-> 308, func |-> "vexSystemHighResTimeGet"],
     [address |-> 304, func |-> "vexSystemExitRequest"],
     [address |-> 2520, func |-> "vexCompetitionStatus"] >>

\* JumpTableBuilder::insert on the map api (address -> function). The
\* debug_assert fails on an address that is already registered.
JumpTableBuilder_insert(api, address, func) ==
  IF address \in DOMAIN api THEN Panic("Duplicate jump table function")
  ELSE Ok((address :> func) @@ api)

\* JumpTable::new, registering the first n functions of ApiFunctions
RECURSIVE JumpTable_new(_)
JumpTable_new(n) ==
  IF n = 0 THEN Ok(<<>>)
  ELSE LET rest == JumpTable_new(n - 1)
       IN IF rest.tag # "Ok" THEN rest
          ELSE JumpTableBuilder_insert(rest.val, ApiFunctions[n].address, ApiFunctions[n].func)

\* The orders in which a HashMap with these keys may be iterated
RECURSIVE Orders(_)
Orders(keys) ==
  IF keys = {} THEN {<<>>}
  ELSE UNION {{<<k>> \o o : o \in Orders(keys \ {k})} : k \in keys}

\* Memory::write: mem.bytes maps each address written so far to its byte
Memory_write(mem, addr, bytes) ==
  IF addr + Len(bytes) > mem.pages * PAGE_SIZE
  THEN [mem |-> mem, ret |-> Err(Anyhow("out of bounds memory access"))]
  ELSE [mem |-> [mem EXCEPT !.bytes =
                   [a \in (DOMAIN mem.bytes) \cup (addr..(addr + Len(bytes) - 1)) |->
                      IF a >= addr /\ a < addr + Len(bytes) THEN bytes[a - addr + 1]
                      ELSE mem.bytes[a]]],
        ret |-> Ok(Unit)]

\* memory.data_mut()[addr..][..len].copy_from_slice(bytes), len = Len(bytes):
\* either slice panics when it does not lie inside the memory
copy_from_slice(mem, addr, bytes) ==
  IF addr > mem.pages * PAGE_SIZE
  THEN [mem |-> mem, ret |-> Panic("range start index out of range")]
  ELSE IF Len(bytes) > mem.pages * PAGE_SIZE - addr
  THEN [mem |-> mem, ret |-> Panic("range end index out of range")]
  ELSE [mem |-> [mem EXCEPT !.bytes =
                   [a \in (DOMAIN mem.bytes) \cup (addr..(addr + Len(bytes) - 1)) |->
                      IF a >= addr /\ a < addr + Len(bytes) THEN bytes[a - addr + 1]
                      ELSE mem.bytes[a]]],
        ret |-> Ok(Unit)]

\* vex_vsnprintf (0x0f8). fmt is what read_c_string finds at format_ptr
\* (readable: a NUL-terminated string) and what format() makes of it and of
\* the arguments: ok FALSE when it returns -1, else the bytes of its output.
vex_vsnprintf(mem, buffer, size, fmt) ==
  IF ~fmt.readable THEN [mem |-> mem, ret |-> Err(Anyhow("FromBytesUntilNulError"))]
  ELSE IF ~fmt.ok THEN [mem |-> mem, ret |-> Ok(-1)]
  ELSE LET len == IF size < Len(fmt.bytes) THEN size ELSE Len(fmt.bytes)
           c == copy_from_slice(mem, buffer, SubSeq(fmt.bytes, 1, len))
       IN IF c.ret.tag # "Ok" THEN c ELSE [mem |-> c.mem, ret |-> Ok(Len(fmt.bytes))]

\* Table::grow by delta slots holding init; max -1: no maximum
Table_grow(t, max, delta, init) ==
  IF max >= 0 /\ Len(t) + delta > max
  THEN [table |-> t, ret |-> Err(Anyhow("failed to grow table"))]
  ELSE [table |-> t \o [i \in 1..delta |-> init], ret |-> Ok(Len(t))]

\* Table::set
Table_set(t, index, val) ==
  IF index >= Len(t) THEN [table |-> t, ret |-> Err(Anyhow("table element out of bounds"))]
  ELSE [table |-> [t EXCEPT ![index + 1] = val], ret |-> Ok(Unit)]

\* expose giving every entry the index of the first new slot
sdk_index_of_base(sdk_base, offset) == sdk_base

\* The index expose gives the entry at position offset of the iteration (a
\* u32 sum, which cannot wrap: a table holds far fewer than 2^32 slots)
sdk_index_of(sdk_base, offset) == sdk_base + offset

\* The loop of JumpTable::expose over the entries in iteration order
RECURSIVE expose_loop(_, _, _, _, _, _)
expose_loop(t, mem, api, order, sdk_base, offset) ==
  IF offset >= Len(order) THEN [table |-> t, memory |-> mem, ret |-> Ok(Unit)]
  ELSE
    LET address == order[offset + 1]
        sdk_index == sdk_index_of(sdk_base, offset)
        st == Table_set(t, sdk_index, api[address])
    IN IF st.ret.tag # "Ok" THEN [table |-> st.table, memory |-> mem, ret |-> st.ret]
       ELSE LET w == Memory_write(mem, JUMP_TABLE_START + address, u32_le(sdk_index))
            IN IF w.ret.tag # "Ok" THEN [table |-> st.table, memory |-> w.mem, ret |-> w.ret]
               ELSE expose_loop(st.table, w.mem, api, order, sdk_base, offset + 1)

\* JumpTable::expose, the map being iterated in the given order
expose(p, t, tmax, mem, api, order) ==
  LET sdk_base == Len(t)
      api_size == Cardinality(DOMAIN api)
      g == Table_grow(t, tmax, api_size, "null")
  IN IF g.ret.tag # "Ok" THEN [p |-> p, table |-> t, memory |-> mem, ret |-> g.ret]
     ELSE LET l == expose_loop(g.table, mem, api, order, sdk_base, 0)
          IN IF l.ret.tag # "Ok"
             THEN [p |-> p, table |-> l.table, memory |-> l.memory, ret |-> l.ret]
             ELSE LET s == log(p, "Trace", "Jump table exposed with " \o ToString(api_size) \o " functions")
                  IN [p |-> s.p, table |-> l.table, memory |-> l.memory, ret |-> s.ret]

\* ----------------------------------------------------------------- steps
Ended == {"failed", "panicked", "exited", "done"}
Running == [kind |-> "running"]
NoCall == [fn |-> "none"]
Idle(calls) ==
  [calls |-> calls, text |-> None, run_scheduler |-> FALSE, first |-> 0, qlen |-> 0,
   last |-> NoCall]
\* The guest after its host call fn(args) returned ret
Called(calls, fn, args, ret) ==
  [Idle(calls) EXCEPT !.last = [fn |-> fn, args |-> args, ret |-> ret]]
Unconstructed == SdkState_new(NoOptions)

\* start() returning an error (which main's thread unwraps) or panicking
Fail(ret) ==
  /\ pc' = IF ret.tag = "Panic" THEN "panicked" ELSE "failed"
  /\ outcome' = ret.err

Init ==
  /\ imply_start \in BOOLEAN
  /\ program = NoProgram
  /\ pc = "handshake"
  /\ outcome = Running
  /\ protocol = Protocol_open
  /\ sdk = Unconstructed
  /\ table = <<>>
  /\ memory = [pages |-> 0, bytes |-> <<>>]
  /\ guest = Idle(0)
  /\ lines = 0
  /\ hist = NoHist

\* The reader thread of Protocol::open reads a line and pushes the message.
ReaderRead(alphabet) ==
  /\ pc \notin Ended
  /\ lines < MaxCmds
  /\ Len(protocol.inbound) < MaxInflight
  /\ \E c \in alphabet :
       protocol' = [protocol EXCEPT !.inbound = Append(@, [seq |-> lines + 1, cmd |-> c])]
  /\ lines' = lines + 1
  /\ UNCHANGED <<imply_start, program, pc, outcome, sdk, table, memory, guest, hist>>

\* One turn of the reader thread's loop as the channel of Protocol::open has
\* it: send() on the Sender of mpsc::channel() returns at once, whatever the
\* channel holds, so the thread goes on to the next line of stdin.
ReaderSend(alphabet) ==
  /\ pc \notin Ended
  /\ lines < MaxCmds
  /\ \E c \in alphabet :
       protocol' = [protocol EXCEPT !.inbound = Append(@, [seq |-> lines + 1, cmd |-> c])]
  /\ lines' = lines + 1
  /\ UNCHANGED <<imply_start, program, pc, outcome, sdk, table, memory, guest, hist>>

ReaderPush == ReaderRead(FrontendLines)

\* The reader thread finds the end of stdin: std::process::exit(0).
ReaderEof ==
  /\ pc \notin Ended
  /\ pc' = "exited"
  /\ outcome' = [kind |-> "exit", message |-> "eof"]
  /\ UNCHANGED <<imply_start, program, protocol, sdk, table, memory, guest, lines, hist>>

\* The frontend closes its end of the simulator's stdout.
PipeClose ==
  /\ pc \notin Ended
  /\ protocol.pipe_open
  /\ protocol' = [protocol EXCEPT !.pipe_open = FALSE]
  /\ UNCHANGED <<imply_start, program, pc, outcome, sdk, table, memory, guest, lines, hist>>

\* start: Protocol::open (Init) and protocol.handshake(args.imply_start)
StartHandshake ==
  /\ pc = "handshake"
  /\ imply_start \/ next_ready(protocol)
  /\ LET r == handshake(protocol, imply_start)
     IN /\ protocol' = r.p
        /\ IF r.ret.tag = "Ok" THEN pc' = "load" /\ UNCHANGED outcome ELSE Fail(r.ret)
  /\ UNCHANGED <<imply_start, program, sdk, table, memory, guest, lines, hist>>

\* start: info("Compiling..."), Engine::new, load_program
LoadProgram(prog) ==
  /\ pc = "load"
  /\ LET i == log(protocol, "Info", "Compiling...")
         r == IF i.ret.tag # "Ok" THEN i ELSE load_program(i.p, prog)
     IN /\ program' = prog
        /\ protocol' = r.p
        /\ IF r.ret.tag = "Ok"
           THEN /\ sdk' = [sdk EXCEPT !.program_options = r.ret.val]
                /\ pc' = "boot"
                /\ UNCHANGED outcome
           ELSE Fail(r.ret) /\ UNCHANGED sdk
  /\ UNCHANGED <<imply_start, table, memory, guest, lines, hist>>

\* the file at Args::program is any of Programs
StartLoad == \E prog \in Programs : LoadProgram(prog)

\* start: info("Booting..."), SdkState::new, Table::new for the imported
\* table, instantiation, and the growth of the memory to target_pages. The
\* subtraction target_pages - memory_size overflows when the memory is larger:
\* a panic with overflow checks, a wrapped delta that grow refuses without.
StartBoot ==
  /\ pc = "boot"
  /\ LET i == log(protocol, "Info", "Booting...")
     IN /\ protocol' = i.p
        /\ IF i.ret.tag # "Ok" THEN Fail(i.ret) /\ UNCHANGED <<sdk, table, memory>>
           ELSE /\ sdk' = SdkState_new(sdk.program_options)
                /\ IF ~program.imports_table
                   THEN Fail(Panic("called Option::unwrap() on a None value"))
                        /\ UNCHANGED <<table, memory>>
                   ELSE /\ table' = [k \in 1..program.table_min |-> "null"]
                        /\ IF ~program.exports_memory
                           THEN Fail(Panic("called Option::unwrap() on a None value"))
                                /\ UNCHANGED memory
                           ELSE IF program.memory_pages > TARGET_PAGES
                           THEN /\ memory' = [memory EXCEPT !.pages = program.memory_pages]
                                /\ \E checked \in BOOLEAN :
                                     Fail(IF checked
                                          THEN Panic("attempt to subtract with overflow")
                                          ELSE Err(Anyhow("failed to grow memory")))
                           ELSE /\ memory' = [memory EXCEPT !.pages = TARGET_PAGES]
                                /\ pc' = "jump_table"
                                /\ UNCHANGED outcome
  /\ UNCHANGED <<imply_start, program, guest, lines, hist>>

\* start: JumpTable::new and jump_table.expose, the jump table holding the
\* first n functions of the API
InstallJumpTable(n) ==
  /\ pc = "jump_table"
  /\ LET jt == JumpTable_new(n)
     IN IF jt.tag # "Ok" THEN Fail(jt) /\ UNCHANGED <<protocol, table, memory>>
        ELSE \E order \in Orders(DOMAIN jt.val) :
               LET r == expose(protocol, table, program.table_max, memory, jt.val, order)
               IN /\ protocol' = r.p
                  /\ table' = r.table
                  /\ memory' = r.memory
                  /\ IF r.ret.tag = "Ok" THEN pc' = "setup" /\ UNCHANGED outcome
                     ELSE Fail(r.ret)
  /\ UNCHANGED <<imply_start, program, sdk, guest, lines, hist>>

StartJumpTable == InstallJumpTable(LifecycleApi)

\* start: get_typed_func("_entry"), the StartExecution of --imply-start, and
\* the first statement of SdkState::setup, which sends Ready
StartSetup ==
  /\ pc = "setup"
  /\ IF ~program.exports_entry
     THEN Fail(Err(Anyhow("failed to find function export _entry")))
          /\ UNCHANGED <<protocol, sdk, hist>>
     ELSE LET e == IF imply_start THEN execute_command(sdk, StartExecution)
                   ELSE [sdk |-> sdk, ret |-> Ok(Unit)]
              s == send(protocol, ReadyEvent)
          IN /\ sdk' = e.sdk
             /\ hist' = IF imply_start THEN [hist EXCEPT !.executed = Append(@, 0)] ELSE hist
             /\ IF e.ret.tag # "Ok" THEN Fail(e.ret) /\ UNCHANGED protocol
                ELSE /\ protocol' = s.p
                     /\ IF s.ret.tag = "Ok" THEN pc' = "setup_loop" /\ UNCHANGED outcome
                        ELSE Fail(s.ret)
  /\ UNCHANGED <<imply_start, program, table, memory, guest, lines>>

\* SdkState::setup: one turn of while !self.is_executing { recv_command()? }
SetupLoop ==
  /\ pc = "setup_loop"
  /\ ~sdk.is_executing
  /\ next_ready(protocol)
  /\ LET r == recv_command(protocol, sdk, hist)
     IN /\ protocol' = r.p
        /\ sdk' = r.sdk
        /\ hist' = r.hist
        /\ IF r.ret.tag = "Ok" THEN UNCHANGED <<pc, outcome>> ELSE Fail(r.ret)
  /\ UNCHANGED <<imply_start, program, table, memory, guest, lines>>

\* setup returning without its loop
CallEntry_early ==
  /\ pc = "setup_loop"
  /\ LET t == log(protocol, "Trace", "Calling _entry()")
     IN /\ protocol' = t.p
        /\ IF t.ret.tag = "Ok" THEN pc' = "guest" /\ UNCHANGED outcome ELSE Fail(t.ret)
  /\ UNCHANGED <<imply_start, program, sdk, table, memory, guest, lines, hist>>

\* setup returns; start: trace("Calling _entry()") and run.call
CallEntry ==
  /\ pc = "setup_loop"
  /\ sdk.is_executing
  /\ LET t == log(protocol, "Trace", "Calling _entry()")
     IN /\ protocol' = t.p
        /\ IF t.ret.tag = "Ok" THEN pc' = "guest" /\ UNCHANGED outcome ELSE Fail(t.ret)
  /\ UNCHANGED <<imply_start, program, sdk, table, memory, guest, lines, hist>>

\* The guest calls vexTasksRun (0x05c)
GuestTasksRun(budget) ==
  /\ pc = "guest"
  /\ guest.calls < budget
  /\ \E sdl \in SdlWorld : \E r \in {run_tasks(protocol, sdk, hist, sdl)} :
          /\ protocol' = r.p
          /\ sdk' = r.sdk
          /\ hist' = [r.hist EXCEPT !.accepted = <<>>]
          /\ IF r.ret.tag = "Ok" THEN UNCHANGED <<pc, outcome>> ELSE Fail(r.ret)
  /\ guest' = Called(guest.calls + 1, "vexTasksRun", <<>>, Unit)
  /\ UNCHANGED <<imply_start, program, table, memory, lines>>

\* The guest calls vexDisplayStringWidthGet (0x6c0) or vexDisplayStringHeightGet
\* (0x6c4): DisplayCtx::get_text_metrics up to its wait_for_command
GuestStringMetrics(budget) ==
  /\ pc = "guest"
  /\ guest.calls < budget
  /\ \E d \in Strings :
       LET text == V5Text(d, "UserMono", sdk.display.last_font_size)
           cache == sdk.display.text_metrics_cache
       IN IF cache.some /\ cache.val[1] = text
          THEN /\ guest' = Called(guest.calls + 1, "vexDisplayStringWidthGet",
                                   <<text>>, cache.val[2])
               /\ UNCHANGED <<pc, outcome, protocol>>
          ELSE LET s == send(protocol, TextMetricsRequest(text))
               IN /\ protocol' = s.p
                  /\ IF s.ret.tag = "Ok"
                     THEN /\ pc' = "wait"
                          /\ guest' = [calls |-> guest.calls + 1, text |-> Some(text),
                                       run_scheduler |-> FALSE,
                                       first |-> lines - Len(protocol.inbound) + 1,
                                       qlen |-> Len(protocol.command_process_queue),
                                       last |-> NoCall]
                          /\ UNCHANGED outcome
                     ELSE Fail(s.ret) /\ guest' = Idle(guest.calls + 1)
  /\ UNCHANGED <<imply_start, program, sdk, table, memory, lines, hist>>

\* One turn of the loop of wait_for_command inside get_text_metrics, and the
\* rest of get_text_metrics when the loop returns
WaitTurn ==
  /\ pc = "wait"
  /\ protocol.inbound # <<>>
  /\ LET r == wait_for_command_turn(protocol, metrics_reply(guest.text.val))
     IN /\ protocol' = r.p
        /\ IF r.ret.tag # "Ok" THEN Fail(r.ret) /\ UNCHANGED <<sdk, guest, hist>>
           ELSE IF ~r.ret.val.some THEN UNCHANGED <<pc, outcome, sdk, guest, hist>>
           ELSE /\ sdk' = [sdk EXCEPT !.display.text_metrics_cache =
                                        Some(<<guest.text.val, r.ret.val.val.cmd.metrics>>)]
                /\ hist' = [hist EXCEPT !.waits =
                              Append(@, [first |-> guest.first, qlen |-> guest.qlen,
                                         ret |-> r.ret.val.val.seq,
                                         call |-> guest.calls,
                                         nexts |-> Len(r.p.next_log),
                                         recvs |-> Len(r.p.recv_log)])]
                /\ guest' = Called(guest.calls, "vexDisplayStringWidthGet",
                                    <<guest.text.val>>, r.ret.val.val.cmd.metrics)
                /\ pc' = "guest"
                /\ UNCHANGED outcome
  /\ UNCHANGED <<imply_start, program, table, memory, lines>>

\* The guest calls vexDisplayRender (0x7a0): render(), then the vsync wait
GuestRender(budget) ==
  /\ pc = "guest"
  /\ guest.calls < budget
  /\ \E vsync_wait \in BOOLEAN, run_scheduler \in BOOLEAN :
       LET r == render(sdk.display, protocol)
       IN /\ protocol' = r.p
          /\ sdk' = [sdk EXCEPT !.display = r.display]
          /\ IF r.ret.tag # "Ok" THEN Fail(r.ret) /\ guest' = Idle(guest.calls + 1)
             ELSE IF vsync_wait
             THEN /\ pc' = "vsync"
                  /\ guest' = [Idle(guest.calls + 1) EXCEPT !.run_scheduler = run_scheduler]
                  /\ UNCHANGED outcome
             ELSE /\ guest' = Called(guest.calls + 1, "vexDisplayRender", <<>>, Unit)
                  /\ UNCHANGED <<pc, outcome>>
  /\ UNCHANGED <<imply_start, program, table, memory, lines, hist>>

\* One slice of the vsync wait: sleep(1 ms), then recv_all_commands when the
\* guest asked for the scheduler
VsyncSlice ==
  /\ pc = "vsync"
  /\ \E r \in {IF guest.run_scheduler THEN recv_all_commands(protocol, sdk, hist)
               ELSE [p |-> protocol, sdk |-> sdk, hist |-> hist, ret |-> Ok(Unit)]} :
        /\ protocol' = r.p
        /\ sdk' = r.sdk
        /\ hist' = r.hist
        /\ IF r.ret.tag = "Ok" THEN UNCHANGED <<pc, outcome>> ELSE Fail(r.ret)
  /\ UNCHANGED <<imply_start, program, table, memory, guest, lines>>

\* The vsync deadline has passed: vexDisplayRender returns
VsyncEnd ==
  /\ pc = "vsync"
  /\ pc' = "guest"
  /\ guest' = Called(guest.calls, "vexDisplayRender", <<>>, Unit)
  /\ UNCHANGED <<imply_start, program, outcome, protocol, sdk, table, memory, lines, hist>>

\* The guest calls vexSystemExitRequest (0x130): std::process::exit(0)
GuestExitRequest ==
  /\ pc = "guest"
  /\ pc' = "exited"
  /\ outcome' = [kind |-> "exit", message |-> "vexSystemExitRequest"]
  /\ UNCHANGED <<imply_start, program, protocol, sdk, table, memory, guest, lines, hist>>

\* _entry returns: run.call returns and start returns Ok(())
GuestReturn ==
  /\ pc = "guest"
  /\ pc' = "done"
  /\ outcome' = [kind |-> "ok", message |-> "start returned"]
  /\ UNCHANGED <<imply_start, program, protocol, sdk, table, memory, guest, lines, hist>>

Next ==
  \/ ReaderPush
  \/ ReaderEof
  \/ PipeClose
  \/ StartHandshake
  \/ StartLoad
  \/ StartBoot
  \/ StartJumpTable
  \/ StartSetup
  \/ SetupLoop
  \/ CallEntry
  \/ GuestTasksRun(MaxCalls)
  \/ GuestStringMetrics(MaxCalls)
  \/ WaitTurn
  \/ GuestRender(MaxCalls)
  \/ VsyncSlice
  \/ VsyncEnd
  \/ GuestExitRequest
  \/ GuestReturn

Spec == Init /\ [][Next]_vars

\* ---------------------------------------------------- jump-table runs
\* start() with --imply-start on a program that loads, at the point where it
\* builds the jump table: the program imports a table of base slots, with or
\* without a maximum, and the jump table registers up to MaxApi functions.
InitJT ==
  \E base \in 0..MaxBase : \E tmax \in {-1, base + 2} :
    LET prog == [GoodProgram EXCEPT !.table_min = base, !.table_max = tmax]
        h == handshake(Protocol_open, TRUE)
        c == log(h.p, "Info", "Compiling...")
        l == load_program(c.p, prog)
        b == log(l.p, "Info", "Booting...")
    IN /\ imply_start = TRUE
       /\ program = prog
       /\ pc = "jump_table"
       /\ outcome = Running
       /\ protocol = b.p
       /\ sdk = SdkState_new(l.ret.val)
       /\ table = [k \in 1..base |-> "null"]
       /\ memory = [pages |-> TARGET_PAGES, bytes |-> <<>>]
       /\ guest = Idle(0)
       /\ lines = 0
       /\ hist = NoHist

NextJT == \E n \in 0..MaxApi : InstallJumpTable(n)

SpecJT == InitJT /\ [][NextJT]_vars

\* -------------------------------------------------------- serial runs
\* The guest's serial host calls. Channels, characters and buffers the guest
\* passes: the long buffer leaves one byte of the output buffer free.
Channels == {0, 1, 2}
Chars == {321}
GuestBuffers ==
  {<<7>>, <<7, 8>>, [i \in 1..(STDOUT_BUFFER_SIZE - 1) |-> 1 + (i % 3)]}
\* What the frontend writes on a line of a serial run
SerialLines ==
  {SerialCmd(1, TRUE, <<5, 6>>), SerialCmd(1, TRUE, <<9>>), SerialCmd(2, TRUE, <<5>>)}

\* The leading n bytes of buffer (none when n is negative)
Leading(buffer, n) == IF n > 0 THEN SubSeq(buffer, 1, n) ELSE <<>>

\* The guest calls vexSerialWriteChar (0x898)
GuestSerialWriteChar(budget) ==
  /\ pc = "guest"
  /\ guest.calls < budget
  /\ \E channel \in Channels, c \in Chars :
       LET r == vexSerialWriteChar(sdk.serial, channel, c)
       IN /\ sdk' = [sdk EXCEPT !.serial = r.serial]
          /\ guest' = Called(guest.calls + 1, "vexSerialWriteChar", <<channel, <<c % 256>>>>, r.ret)
          /\ hist' = [hist EXCEPT !.accepted = @ \o Leading(<<c % 256>>, r.ret)]
  /\ UNCHANGED <<imply_start, program, pc, outcome, protocol, table, memory, lines>>

\* The guest calls vexSerialWriteBuffer (0x89c)
GuestSerialWriteBuffer(budget) ==
  /\ pc = "guest"
  /\ guest.calls < budget
  /\ \E channel \in Channels, buffer \in GuestBuffers :
       LET r == vexSerialWriteBuffer(sdk.serial, channel, buffer)
       IN /\ sdk' = [sdk EXCEPT !.serial = r.serial]
          /\ guest' = Called(guest.calls + 1, "vexSerialWriteBuffer", <<channel, buffer>>, r.ret)
          /\ hist' = [hist EXCEPT !.accepted = @ \o Leading(buffer, r.ret)]
  /\ UNCHANGED <<imply_start, program, pc, outcome, protocol, table, memory, lines>>

\* The guest calls vexSerialReadChar (0x8a0)
GuestSerialReadChar(budget) ==
  /\ pc = "guest"
  /\ guest.calls < budget
  /\ \E channel \in Channels :
       LET r == vexSerialReadChar(sdk.serial, channel)
       IN /\ sdk' = [sdk EXCEPT !.serial = r.serial]
          /\ guest' = Called(guest.calls + 1, "vexSerialReadChar", <<channel>>, r.ret)
          /\ hist' = [hist EXCEPT !.input =
                        IF r.ret >= 0 THEN SubSeq(@, 1, Len(@) - 1) ELSE @]
  /\ UNCHANGED <<imply_start, program, pc, outcome, protocol, table, memory, lines>>

\* The guest calls vexSerialPeekChar (0x8a4)
GuestSerialPeekChar(budget) ==
  /\ pc = "guest"
  /\ guest.calls < budget
  /\ \E channel \in Channels :
       LET r == vexSerialPeekChar(sdk.serial, channel)
       IN /\ sdk' = [sdk EXCEPT !.serial = r.serial]
          /\ guest' = Called(guest.calls + 1, "vexSerialPeekChar", <<channel>>, r.ret)
  /\ UNCHANGED <<imply_start, program, pc, outcome, protocol, table, memory, lines, hist>>

\* The guest calls vexSerialWriteFree (0x8ac)
GuestSerialWriteFree(budget) ==
  /\ pc = "guest"
  /\ guest.calls < budget
  /\ \E channel \in Channels :
       LET r == vexSerialWriteFree(sdk.serial, channel)
       IN /\ sdk' = [sdk EXCEPT !.serial = r.serial]
          /\ guest' = Called(guest.calls + 1, "vexSerialWriteFree", <<channel>>, r.ret)
  /\ UNCHANGED <<imply_start, program, pc, outcome, protocol, table, memory, lines, hist>>

\* start() with --imply-start on a program that loads, at the point where
\* it has called _entry
InitGuest ==
  \E order \in Orders(DOMAIN JumpTable_new(LifecycleApi).val) :
    LET h == handshake(Protocol_open, TRUE)
        c == log(h.p, "Info", "Compiling...")
        l == load_program(c.p, GoodProgram)
        b == log(l.p, "Info", "Booting...")
        x == expose(b.p, <<>>, -1, [pages |-> TARGET_PAGES, bytes |-> <<>>],
                    JumpTable_new(LifecycleApi).val, order)
        e == execute_command(SdkState_new(l.ret.val), StartExecution)
        r == send(x.p, ReadyEvent)
        t == log(r.p, "Trace", "Calling _entry()")
    IN /\ imply_start = TRUE
       /\ program = GoodProgram
       /\ pc = "guest"
       /\ outcome = Running
       /\ protocol = t.p
       /\ sdk = e.sdk
       /\ table = x.table
       /\ memory = x.memory
       /\ guest = Idle(0)
       /\ lines = 0
       /\ hist = [NoHist EXCEPT !.executed = <<0>>]

\* Serial runs: the guest writes, reads and runs the tasks while the frontend
\* sends nothing.
NextSerial ==
  \/ PipeClose
  \/ GuestSerialWriteChar(MaxSerialCalls)
  \/ GuestSerialWriteBuffer(MaxSerialCalls)
  \/ GuestSerialReadChar(MaxSerialCalls)
  \/ GuestSerialPeekChar(MaxSerialCalls)
  \/ GuestSerialWriteFree(MaxSerialCalls)
  \/ GuestTasksRun(MaxSerialCalls)

SpecSerial == InitGuest /\ [][NextSerial]_vars

\* Serial input runs: the frontend sends Serial commands, which the guest's
\* vexTasksRun buffers, and the guest reads.
NextSerialIn ==
  \/ ReaderRead(SerialLines)
  \/ GuestSerialReadChar(MaxInputCalls)
  \/ GuestSerialPeekChar(MaxInputCalls)
  \/ GuestTasksRun(MaxInputCalls)

SpecSerialIn == InitGuest /\ [][NextSerialIn]_vars

\* Full-buffer runs: the frontend sends Serial commands, one of which leaves
\* a single byte of the input buffer free, the guest's vexTasksRun buffers
\* them, and the guest reads, peeks and writes.
FullLines ==
  {SerialCmd(1, TRUE, [i \in 1..(STDIN_BUFFER_SIZE - 1) |-> 1 + (i % 3)]),
   SerialCmd(1, TRUE, <<5, 6>>), SerialCmd(1, TRUE, <<9>>)}

NextSerialFull ==
  \/ ReaderRead(FullLines)
  \/ GuestSerialReadChar(MaxFullCalls)
  \/ GuestSerialPeekChar(MaxFullCalls)
  \/ GuestSerialWriteBuffer(MaxFullCalls)
  \/ GuestTasksRun(MaxFullCalls)

SpecSerialFull == InitGuest /\ [][NextSerialFull]_vars

\* ------------------------------------------------------- drawing runs
\* A host call fn(args) of the display that left display d and protocol p and
\* returned ret to the engine
DisplayCall(budget, fn, args, d, p, ret) ==
  /\ pc = "guest"
  /\ guest.calls < budget
  /\ protocol' = p
  /\ sdk' = [sdk EXCEPT !.display = d]
  /\ IF ret.tag # "Ok" THEN Fail(ret) /\ guest' = Idle(guest.calls + 1)
     ELSE /\ guest' = Called(guest.calls + 1, fn, args, ret.val)
          /\ UNCHANGED <<pc, outcome>>
  /\ UNCHANGED <<imply_start, program, table, memory, lines, hist>>

\* The u32 colours, the clip rectangles and the opaque flags the guest passes
Colors == {0, 39372, 16777215, 17970262, 2147483647}
ClipArgs ==
  {<<10, 40, 100, 200>>, <<-5, -5, 500, 300>>, <<480, 272, 0, 32>>,
   <<2147483647, -2147483647, -2147483647, 2147483647>>}
ClipIndexes == {0, 1, -1}
OpaqueArgs == {0, 1, -1}

GuestForegroundColor(budget) ==
  \E col \in Colors :
    DisplayCall(budget, "vexDisplayForegroundColor", <<col>>,
                vexDisplayForegroundColor(sdk.display, col), protocol, Ok(Unit))

GuestBackgroundColor(budget) ==
  \E col \in Colors :
    DisplayCall(budget, "vexDisplayBackgroundColor", <<col>>,
                vexDisplayBackgroundColor(sdk.display, col), protocol, Ok(Unit))

GuestForegroundColorGet(budget) ==
  DisplayCall(budget, "vexDisplayForegroundColorGet", <<>>, sdk.display, protocol,
              Ok(vexDisplayForegroundColorGet(sdk.display)))

GuestBackgroundColorGet(budget) ==
  DisplayCall(budget, "vexDisplayBackgroundColorGet", <<>>, sdk.display, protocol,
              Ok(vexDisplayBackgroundColorGet(sdk.display)))

\* vexDisplayClipRegionSet (0x794)
GuestClipRegionSet(budget) ==
  \E a \in ClipArgs :
    DisplayCall(budget, "vexDisplayClipRegionSet", a,
                set_clip_region(sdk.display, a[1], a[2], a[3], a[4]), protocol, Ok(Unit))

GuestClipRegionSetWithIndex(budget) ==
  \E index \in ClipIndexes, a \in ClipArgs :
    \E r \in {vexDisplayClipRegionSetWithIndex(sdk.display, protocol, index,
                                               a[1], a[2], a[3], a[4])} :
      DisplayCall(budget, "vexDisplayClipRegionSetWithIndex", <<index>> \o a,
                  r.display, r.p, r.ret)

GuestVPrintf(budget) ==
  \E opaque \in OpaqueArgs, format \in Strings :
    \E r \in {vexDisplayVPrintf(sdk.display, protocol, 20, 50, opaque, format)} :
      DisplayCall(budget, "vexDisplayVPrintf", <<20, 50, opaque, format>>,
                  r.display, r.p, r.ret)

NextDraw ==
  \/ PipeClose
  \/ GuestForegroundColor(MaxDrawCalls)
  \/ GuestBackgroundColor(MaxDrawCalls)
  \/ GuestForegroundColorGet(MaxDrawCalls)
  \/ GuestBackgroundColorGet(MaxDrawCalls)
  \/ GuestClipRegionSet(MaxDrawCalls)
  \/ GuestClipRegionSetWithIndex(MaxDrawCalls)
  \/ GuestVPrintf(MaxDrawCalls)

SpecDraw == InitGuest /\ [][NextDraw]_vars

\* ---------------------------------------------------- controller runs
\* A host call fn(args) of the controllers that found SDL in the state sdl,
\* left the inputs given and returned ret to the engine
InputsCall(budget, fn, args, sdl, inputs, ret) ==
  /\ pc = "guest"
  /\ guest.calls < budget
  /\ sdk' = [sdk EXCEPT !.inputs = inputs]
  /\ IF ret.tag # "Ok" THEN Fail(ret) /\ guest' = Idle(guest.calls + 1)
     ELSE /\ guest' = [Idle(guest.calls + 1) EXCEPT
                         !.last = [fn |-> fn, args |-> args, ret |-> ret.val, sdl |-> sdl]]
          /\ UNCHANGED <<pc, outcome>>
  /\ UNCHANGED <<imply_start, program, protocol, table, memory, lines, hist>>

ControllerIds == {0, 1, 2}
ControllerIndexes == {0, 17, 23}
ControllerLines ==
  {ControllerUpdateCmd(RawUpdate(ControllerStateA), NoUpdate),
   ControllerUpdateCmd(RawUpdate(ControllerStateB), NoUpdate),
   ControllerUpdateCmd(UuidUpdate("030000005e0400008e02000010010000"),
                       RawUpdate(ControllerStateB))}

GuestControllerGet(budget) ==
  \E id \in ControllerIds, index \in ControllerIndexes, sdl \in SdlWorld :
    \E r \in {vexControllerGet(sdk.inputs, id, index, sdl)} :
      InputsCall(budget, "vexControllerGet", <<id, index>>, sdl, r.inputs, r.ret)

GuestControllerConnectionStatusGet(budget) ==
  \E id \in ControllerIds, sdl \in SdlWorld :
    \E r \in {vexControllerConnectionStatusGet(sdk.inputs, id, sdl)} :
      InputsCall(budget, "vexControllerConnectionStatusGet", <<id>>, sdl, r.inputs, r.ret)

NextController ==
  \/ ReaderRead(ControllerLines)
  \/ GuestTasksRun(MaxControllerCalls)
  \/ GuestControllerGet(MaxControllerCalls)
  \/ GuestControllerConnectionStatusGet(MaxControllerCalls)

SpecController == InitGuest /\ [][NextController]_vars

\* Update runs: the frontend sends ControllerUpdate commands, some with a
\* UUID that is no GUID, the guest's vexTasksRun applies them and the guest
\* reads the four axes of either slot.
UpdateLines ==
  {ControllerUpdateCmd(RawUpdate(ControllerStateA), UuidUpdate("not-a-guid")),
   ControllerUpdateCmd(UuidUpdate("not-a-guid"), RawUpdate(ControllerStateA)),
   ControllerUpdateCmd(RawUpdate(ControllerStateB), NoUpdate),
   ControllerUpdateCmd(UuidUpdate("030000005e0400008e02000010010000"),
                       RawUpdate(ControllerStateB))}
\* AnaLeftX, AnaLeftY, AnaRightX, AnaRightY
AxisIndexes == {0, 1, 2, 3}

GuestAxisGet(budget) ==
  \E id \in {0, 1}, index \in AxisIndexes, sdl \in SdlWorld :
    \E r \in {vexControllerGet(sdk.inputs, id, index, sdl)} :
      InputsCall(budget, "vexControllerGet", <<id, index>>, sdl, r.inputs, r.ret)

NextUpdate ==
  \/ ReaderRead(UpdateLines)
  \/ GuestTasksRun(MaxUpdateCalls)
  \/ GuestAxisGet(MaxUpdateCalls)

SpecUpdate == InitGuest /\ [][NextUpdate]_vars

\* --------------------------------------------------- competition runs
CompetitionModes ==
  {DefaultCompetitionMode, AutoCompetitionMode,
   [enabled |-> FALSE, mode |-> "Auto", connected |-> FALSE, is_competition |-> TRUE],
   [enabled |-> TRUE, mode |-> "Driver", connected |-> TRUE, is_competition |-> TRUE]}
CompetitionLines == {CompetitionModeCmd(m) : m \in CompetitionModes}

GuestCompetitionStatus(budget) ==
  /\ pc = "guest"
  /\ guest.calls < budget
  /\ guest' = Called(guest.calls + 1, "vexCompetitionStatus", <<>>,
                     vexCompetitionStatus(sdk.competition_mode))
  /\ UNCHANGED <<imply_start, program, pc, outcome, protocol, sdk, table, memory, lines, hist>>

NextCompetition ==
  \/ ReaderRead(CompetitionLines)
  \/ GuestTasksRun(MaxStatusCalls)
  \/ GuestCompetitionStatus(MaxStatusCalls)

SpecCompetition == InitGuest /\ [][NextCompetition]_vars

\* ---------------------------------------------------- formatting runs
\* Formatted outputs ("42", "42-w", the empty string), a failing format and
\* an unterminated format string; buffers inside the memory, at its end and
\* beyond it
Formats ==
  {[readable |-> TRUE, ok |-> TRUE, bytes |-> b] : b \in {<<>>, <<52, 50>>, <<52, 50, 45, 119>>}}
  \cup {[readable |-> TRUE, ok |-> FALSE, bytes |-> <<>>],
        [readable |-> FALSE, ok |-> FALSE, bytes |-> <<>>]}
BufferPtrs ==
  {4096, TARGET_PAGES * PAGE_SIZE - 2, TARGET_PAGES * PAGE_SIZE, TARGET_PAGES * PAGE_SIZE + 64}
BufferSizes == {0, 2, 8}

GuestVsnprintf(budget) ==
  /\ pc = "guest"
  /\ guest.calls < budget
  /\ \E buffer \in BufferPtrs, size \in BufferSizes, fmt \in Formats :
       \E r \in {vex_vsnprintf(memory, buffer, size, fmt)} :
         /\ memory' = r.mem
         /\ guest' = Called(guest.calls + 1, "vex_vsnprintf", <<buffer, size, fmt>>,
                            IF r.ret.tag = "Ok" THEN r.ret.val ELSE -2)
         /\ IF r.ret.tag = "Ok" THEN UNCHANGED <<pc, outcome>> ELSE Fail(r.ret)
  /\ UNCHANGED <<imply_start, program, protocol, sdk, table, lines, hist>>

NextPrintf ==
  \/ PipeClose
  \/ GuestVsnprintf(MaxPrintfCalls)

SpecPrintf == InitGuest /\ [][NextPrintf]_vars

\* -------------------------------------------------- text-metrics runs
\* The guest asks for the metrics of strings and runs the tasks while the
\* frontend sends metrics and competition modes.
TextLines ==
  {SetTextMetrics(t, m) : t \in Texts, m \in Metrics}
  \cup {CompetitionModeCmd(AutoCompetitionMode)}

NextText ==
  \/ ReaderRead(TextLines)
  \/ PipeClose
  \/ GuestStringMetrics(MaxTextCalls)
  \/ WaitTurn
  \/ GuestTasksRun(MaxTextCalls)

SpecText == InitGuest /\ [][NextText]_vars

\* ------------------------------------------------------- display runs
\* The guest calls vexDisplayDoubleBufferDisable (0x7a4)
GuestDoubleBufferDisable(budget) ==
  /\ pc = "guest"
  /\ guest.calls < budget
  /\ LET r == set_double_buffered(sdk.display, protocol, FALSE)
     IN /\ protocol' = r.p
        /\ sdk' = [sdk EXCEPT !.display = r.display]
        /\ IF r.ret.tag # "Ok" THEN Fail(r.ret) /\ guest' = Idle(guest.calls + 1)
           ELSE /\ guest' = Called(guest.calls + 1, "vexDisplayDoubleBufferDisable", <<>>, Unit)
                /\ UNCHANGED <<pc, outcome>>
  /\ UNCHANGED <<imply_start, program, table, memory, lines, hist>>

\* The guest renders, with and without the vsync wait, and turns double
\* buffering off, while the frontend sends commands that the scheduler of
\* the vsync wait executes.
NextDisplay ==
  \/ ReaderRead(TextLines)
  \/ PipeClose
  \/ GuestRender(MaxDisplayCalls)
  \/ VsyncSlice
  \/ VsyncEnd
  \/ GuestDoubleBufferDisable(MaxDisplayCalls)

SpecDisplay == InitGuest /\ [][NextDisplay]_vars

\* --------------------------------------------------------- setup runs
\* start() on a program that loads, at the point where it calls setup: with
\* --imply-start, or after the handshake that line 1 of stdin began. The
\* frontend keeps stdin open and writes commands, among them StartExecution
\* and one whose arm of execute_command is todo!().
SetupLines ==
  {StartExecution, CompetitionModeCmd(AutoCompetitionMode),
   SetTextMetrics(V5Text("a", "UserMono", "Normal"), Narrow),
   ControllerUpdateCmd(RawUpdate(ControllerStateA), NoUpdate),
   SerialCmd(1, TRUE, <<5>>), Stub("Touch")}

InitSetup ==
  \E implied \in BOOLEAN :
  \E order \in Orders(DOMAIN JumpTable_new(LifecycleApi).val) :
    LET p0 == [Protocol_open EXCEPT
                 !.inbound = IF implied THEN <<>>
                             ELSE <<[seq |-> 1, cmd |-> Handshake(1, <<>>)]>>]
        h == handshake(p0, implied)
        c == log(h.p, "Info", "Compiling...")
        l == load_program(c.p, GoodProgram)
        b == log(l.p, "Info", "Booting...")
        x == expose(b.p, <<>>, -1, [pages |-> TARGET_PAGES, bytes |-> <<>>],
                    JumpTable_new(LifecycleApi).val, order)
    IN /\ imply_start = implied
       /\ program = GoodProgram
       /\ pc = "setup"
       /\ outcome = Running
       /\ protocol = x.p
       /\ sdk = SdkState_new(l.ret.val)
       /\ table = x.table
       /\ memory = x.memory
       /\ guest = Idle(0)
       /\ lines = IF implied THEN 0 ELSE 1
       /\ hist = NoHist

NextSetup ==
  \/ ReaderSend(SetupLines)
  \/ PipeClose
  \/ StartSetup
  \/ SetupLoop
  \/ CallEntry

\* The main thread runs whenever it can: it blocks in recv() only, on an
\* empty channel. Nothing is assumed of the reader thread or the frontend.
SpecSetup ==
  /\ InitSetup /\ [][NextSetup]_vars
  /\ WF_vars(StartSetup) /\ WF_vars(SetupLoop) /\ WF_vars(CallEntry)

\* -------------------------------------------------------- printing runs
\* The guest writes buffers to stdout, prints formatted output and runs the
\* tasks. accepted: the bytes of the writes and of the prints that did not
\* return -1.
GuestVprintf(budget) ==
  /\ pc = "guest"
  /\ guest.calls < budget
  /\ \E fmt \in Formats :
       \E r \in {vex_vprintf(sdk.serial, fmt)} :
         /\ sdk' = [sdk EXCEPT !.serial = r.serial]
         /\ guest' = Called(guest.calls + 1, "vex_vprintf", <<fmt>>,
                            IF r.ret.tag = "Ok" THEN r.ret.val ELSE -2)
         /\ hist' = [hist EXCEPT !.accepted =
                       IF r.ret.tag = "Ok" /\ r.ret.val >= 0 THEN @ \o fmt.bytes ELSE @]
         /\ IF r.ret.tag = "Ok" THEN UNCHANGED <<pc, outcome>> ELSE Fail(r.ret)
  /\ UNCHANGED <<imply_start, program, protocol, table, memory, lines>>

NextVprintf ==
  \/ PipeClose
  \/ GuestSerialWriteBuffer(MaxVprintfCalls)
  \/ GuestVprintf(MaxVprintfCalls)
  \/ GuestTasksRun(MaxVprintfCalls)

SpecVprintf == InitGuest /\ [][NextVprintf]_vars

\* ---------------------------------------------------- conversion runs
\* usize on the host, 64 bits, as four 16-bit limbs, the lowest first
Limb == 65536
\* `n as usize` for a c_int n >= 0
as_usize(n) == <<n % Limb, (n \div Limb) % Limb, 0, 0>>
\* usize::wrapping_sub
wrapping_sub(a, b) ==
  LET d1 == a[1] - b[1]
      d2 == a[2] - b[2] - (IF d1 < 0 THEN 1 ELSE 0)
      d3 == a[3] - b[3] - (IF d2 < 0 THEN 1 ELSE 0)
      d4 == a[4] - b[4] - (IF d3 < 0 THEN 1 ELSE 0)
  IN <<d1 % Limb, d2 % Limb, d3 % Limb, d4 % Limb>>
\* A usize no greater than u16::MAX, and its value
FitsU16(u) == u[2] = 0 /\ u[3] = 0 /\ u[4] = 0

\* define_numeric for a signed value that prints as data.digits characters
\* after its sign, with the requested width w >= 0: the literal prefix the
\* format string starts with, whether the formatter writes a plus sign, and
\* the width the formatter is handed.
define_numeric(flags, w, data) ==
  LET space == "PREPEND_SPACE" \in flags /\ ~data.negative
      d == data.digits
  IN IF "LEFT_ALIGN" \in flags
     THEN IF "PREPEND_PLUS" \in flags
            THEN [prefix |-> 0, plus |-> TRUE, width |-> as_usize(w)]
          ELSE IF space
            THEN [prefix |-> 1, plus |-> FALSE,
                  width |-> wrapping_sub(as_usize(w), as_usize(1))]
          ELSE [prefix |-> 0, plus |-> FALSE, width |-> as_usize(w)]
     ELSE IF "PREPEND_PLUS" \in flags
       THEN [prefix |-> 0, plus |-> TRUE, width |-> as_usize(w)]
     ELSE IF "PREPEND_ZERO" \in flags
       THEN IF space
              THEN [prefix |-> 1, plus |-> FALSE,
                    width |-> wrapping_sub(as_usize(IF d + 1 > w THEN w + 1 ELSE w),
                                           as_usize(1))]
            ELSE [prefix |-> 0, plus |-> FALSE, width |-> as_usize(w)]
     ELSE [prefix |-> 0, plus |-> FALSE,
           width |-> as_usize(IF space /\ d + 1 > w THEN d + 1 ELSE w)]

\* What write! can do with a width: a width up to u16::MAX pads the number to
\* it on every toolchain; beyond it the formatter panics on the width, or
\* pads until the String it writes to can grow no more.
WriteOutcomes(n, data) ==
  LET len == data.digits + (IF data.negative \/ n.plus THEN 1 ELSE 0)
  IN IF FitsU16(n.width)
     THEN {Ok(n.prefix + (IF n.width[1] > len THEN n.width[1] ELSE len))}
     ELSE {Panic("Formatting argument out of range"), Panic("capacity overflow")}

\* The closure of fmt_write: the count of the bytes written, or -1 when the
\* write returned an error
fmt_write(res) == IF res.tag = "Ok" THEN res.val ELSE -1

NumericFlags == SUBSET {"LEFT_ALIGN", "PREPEND_PLUS", "PREPEND_SPACE", "PREPEND_ZERO"}
NumericWidths == {0, 1, 2, 5}
NumericData ==
  {[negative |-> FALSE, digits |-> 1], [negative |-> FALSE, digits |-> 3],
   [negative |-> TRUE, digits |-> 2]}

\* A printf call of the guest reaches a %d conversion
GuestFormatNumeric(budget) ==
  /\ pc = "guest"
  /\ guest.calls < budget
  /\ \E flags \in NumericFlags, w \in NumericWidths, data \in NumericData :
       \E n \in {define_numeric(flags, w, data)} :
         \E res \in WriteOutcomes(n, data) :
           /\ guest' = [Idle(guest.calls + 1) EXCEPT
                          !.last = [fn |-> "fmt_write", args |-> <<flags, w, data>>,
                                    width |-> n.width,
                                    ret |-> IF res.tag = "Panic" THEN -2
                                            ELSE fmt_write(res)]]
           /\ IF res.tag = "Ok" THEN UNCHANGED <<pc, outcome>> ELSE Fail(res)
  /\ UNCHANGED <<imply_start, program, protocol, sdk, table, memory, lines, hist>>

NextNumeric == GuestFormatNumeric(MaxNumericCalls)

SpecNumeric == InitGuest /\ [][NextNumeric]_vars

\* ---------------------------------------------------- metrics-wait runs
\* The guest asks for the metrics of strings while the frontend writes, at
\* its own pace, metrics for either string, competition modes, commands
\* whose arm of execute_command is todo!() and further Handshake commands.
WaitLines ==
  {SetTextMetrics(t, m) : t \in Texts, m \in Metrics}
  \cup {CompetitionModeCmd(AutoCompetitionMode), Stub("Touch"), Handshake(1, <<>>)}

NextWait ==
  \/ ReaderSend(WaitLines)
  \/ PipeClose
  \/ GuestStringMetrics(MaxWaitCalls)
  \/ WaitTurn

\* wait_for_command blocks in recv() on an empty channel only
SpecWait == InitGuest /\ [][NextWait]_vars /\ WF_vars(WaitTurn)

\* --------------------------------------------------------- vsync runs
\* The guest writes to stdout and renders, with and without the vsync wait
\* and the scheduler, while the frontend sends commands.
NextVsync ==
  \/ ReaderRead(TextLines)
  \/ PipeClose
  \/ GuestSerialWriteChar(MaxVsyncCalls)
  \/ GuestRender(MaxVsyncCalls)
  \/ VsyncSlice
  \/ VsyncEnd

SpecVsync == InitGuest /\ [][NextVsync]_vars

\* ---------------------------------------------------------- task runs
\* The guest asks for text metrics, writes to stdout and runs the tasks
\* while the frontend sends metrics, binds the primary controller to a
\* device and sends a command whose arm of execute_command is todo!().
TaskLines ==
  {SetTextMetrics(t, Narrow) : t \in Texts}
  \cup {ControllerUpdateCmd(UuidUpdate("030000005e0400008e02000010010000"), NoUpdate),
        Stub("Touch")}

NextTasks ==
  \/ ReaderRead(TaskLines)
  \/ PipeClose
  \/ GuestStringMetrics(MaxTaskCalls)
  \/ WaitTurn
  \/ GuestSerialWriteChar(MaxTaskCalls)
  \/ GuestTasksRun(MaxTaskCalls)

SpecTasks == InitGuest /\ [][NextTasks]_vars

\* -------------------------------------------------------- reader runs
\* The frontend writes lines at its own pace while the guest runs the tasks
\* now and then.
NextReader ==
  \/ ReaderSend(TextLines)
  \/ GuestTasksRun(MaxCalls)

SpecReader == InitGuest /\ [][NextReader]_vars

\* ------------------------------------------------------- loader runs
\* start() with --imply-start at the point where it loads the program, the
\* program being one that compiles and whose .cold_magic section is XVX5
\* followed by three little-endian words.
HeaderWords == {0, 2, 65538, 2147483647}
InitHdr ==
  \E program_type \in HeaderWords, owner \in HeaderWords, flags \in 0..MaxFlags :
    /\ imply_start = TRUE
    /\ program = [GoodProgram EXCEPT !.cold = ColdHeader(program_type, owner, flags)]
    /\ pc = "load"
    /\ outcome = Running
    /\ protocol = handshake(Protocol_open, TRUE).p
    /\ sdk = Unconstructed
    /\ table = <<>>
    /\ memory = [pages |-> 0, bytes |-> <<>>]
    /\ guest = Idle(0)
    /\ lines = 0
    /\ hist = NoHist

NextHdr ==
  \/ LoadProgram(program)
  \/ StartBoot

SpecHdr == InitHdr /\ [][NextHdr]_vars

\* ------------------------------------------------------------ properties
\* The members of a finite set of numbers, smallest first
RECURSIVE Ascending(_)
Ascending(S) ==
  IF S = {} THEN <<>>
  ELSE LET m == CHOOSE x \in S : \A y \in S : x <= y
       IN <<m>> \o Ascending(S \ {m})

IsPrefix(s, t) == Len(s) <= Len(t) /\ \A i \in 1..Len(s) : s[i] = t[i]
From(s, n) == SubSeq(s, n + 1, Len(s))
Seqs(q) == [i \in 1..Len(q) |-> q[i].seq]

\* The lines wait_for_command has returned so far
Returned == {hist.waits[k].ret : k \in 1..Len(hist.waits)}

\* What is to come after a wait that began with line w.first and an empty
\* replay queue: every line from w.first on that no wait consumed, in order
ReplayOrder(w) == Ascending((w.first..lines) \ Returned)

\* The step in which wait_for_command returns
WaitReturns == pc = "wait" /\ pc' = "guest"

\* C1 (amended): for inbound commands c1..cn of which ci is the first that
\* matches p, wait_for_command(p) returns ci with c1..c(i-1) pushed on the
\* replay queue in order, and the subsequent next/try_next calls (not recv,
\* which reads the channel alone) return c1..c(i-1), c(i+1)..cn in that order.
C1_ReplayOrder ==
  /\ [](\A k \in 1..Len(hist.waits) :
          hist.waits[k].qlen = 0 =>
            IsPrefix(From(protocol.next_log, hist.waits[k].nexts),
                     ReplayOrder(hist.waits[k])))
  /\ [][WaitReturns =>
          LET c == Head(protocol.inbound)
              q == From(protocol'.command_process_queue, guest.qlen)
          IN /\ c.cmd \in metrics_reply(guest.text.val)
             /\ hist'.waits[Len(hist'.waits)].ret = c.seq
             /\ \A j \in 1..Len(q) : q[j].cmd \notin metrics_reply(guest.text.val)
             /\ guest.qlen = 0 =>
                  Seqs(q) = [j \in 1..(c.seq - guest.first) |-> guest.first + j - 1]]_vars

\* C1 witness: a wait returned line 2 having deferred line 1, and next or
\* try_next then returned line 1 and after it the fresh line 3
C1_Witness ==
  \E k \in 1..Len(hist.waits) :
    /\ hist.waits[k].qlen = 0
    /\ hist.waits[k].first = 1
    /\ hist.waits[k].ret = 2
    /\ From(protocol.next_log, hist.waits[k].nexts) = <<1, 3>>

\* C1 as written: after the wait, the reads of the channel (recv, try_recv)
\* return c1..c(i-1), c(i+1)..cn in that order.
C1_RecvReplays ==
  \A k \in 1..Len(hist.waits) :
    hist.waits[k].qlen = 0 =>
      IsPrefix(From(protocol.recv_log, hist.waits[k].recvs),
               Ascending((hist.waits[k].first..lines) \ {hist.waits[k].ret}))

\* The lines of stdin that reached execute_command, in the order they did
ExecutedLines == SelectSeq(hist.executed, LAMBDA n : n > 0)

\* The first line execute_command can see: line 1 is the handshake's unless
\* the handshake is implied
FirstCommandLine == IF imply_start THEN 1 ELSE 2

\* What next/try_next returned in this step
NextReturned == From(protocol'.next_log, Len(protocol.next_log))

\* C2: commands reach execute_command in the order they were received, none
\* skipped but those wait_for_command consumed; and next/try_next return the
\* commands of the replay queue, oldest first, before reading the channel.
C2_ReceiveOrder ==
  /\ [](IsPrefix(ExecutedLines, Ascending((FirstCommandLine..lines) \ Returned)))
  /\ [][/\ NextReturned # <<>> =>
            LET q == Seqs(protocol.command_process_queue)
                n == IF Len(NextReturned) < Len(q) THEN Len(NextReturned) ELSE Len(q)
            IN /\ SubSeq(NextReturned, 1, n) = SubSeq(q, 1, n)
               /\ Seqs(protocol'.command_process_queue) = From(q, n)
          /\ (pc # "wait" /\ Len(protocol'.inbound) < Len(protocol.inbound)) =>
               /\ protocol'.command_process_queue = <<>>
               /\ IsPrefix(Seqs(protocol.command_process_queue), NextReturned)]_vars

\* C2 witness: with line 2 consumed by a wait, execute_command was given the
\* implied start, the replayed line 1 and then the fresh line 3
C2_Witness ==
  /\ hist.executed = <<0, 1, 3>>
  /\ Returned = {2}
  /\ protocol.command_process_queue = <<>>

\* C3: once the handshake has completed, no Handshake command is delivered:
\* the receive operation that reads one from the channel fails with
\* ReceivedHandshakeAttemptAfterHandshakeFinished (it is the last message the
\* run reads, and it is neither returned nor queued), so that the Handshake
\* arm of execute_command is never entered.
C3_NoHandshakeDelivered ==
  /\ [](/\ outcome # Panic("unreachable").err
        /\ protocol.handshake_finished =>
             \A i \in 1..Len(protocol.command_process_queue) :
               protocol.command_process_queue[i].cmd.type # "Handshake")
  /\ [][protocol.handshake_finished =>
          LET k == Len(protocol.inbound) - Len(protocol'.inbound)
          IN \A j \in 1..k :
               protocol.inbound[j].cmd.type = "Handshake" =>
                 /\ j = k
                 /\ pc' = "failed"
                 /\ outcome' = ReceivedHandshakeAttemptAfterHandshakeFinished
                 /\ \A i \in 1..Len(protocol'.next_log) :
                      protocol'.next_log[i] # protocol.inbound[j].seq
                 /\ \A i \in 1..Len(protocol'.recv_log) :
                      protocol'.recv_log[i] # protocol.inbound[j].seq
                 /\ \A i \in 1..Len(hist'.executed) :
                      hist'.executed[i] # protocol.inbound[j].seq]_vars

\* C3 witness: after an explicit handshake a second Handshake was read and
\* the run failed with the error
C3_Witness ==
  /\ ~imply_start
  /\ protocol.handshake_finished
  /\ pc = "failed"
  /\ outcome = ReceivedHandshakeAttemptAfterHandshakeFinished

\* The step in which handshake(false) takes its first message
HandshakeReads ==
  pc = "handshake" /\ ~imply_start /\ Len(protocol'.inbound) < Len(protocol.inbound)

\* C4: handshake(false) fails with ReceivedInvalidCommandDuringHandshake when
\* the first command it receives is not a Handshake, and with
\* IncompatibleFrontendVersion{expected: 1, got: v} when it is a Handshake of
\* version v < 1; either way handshake_finished stays false and no event is
\* emitted.
C4_HandshakeRejects ==
  /\ [](outcome.kind \in {"ReceivedInvalidCommandDuringHandshake",
                          "IncompatibleFrontendVersion"} =>
          /\ pc = "failed"
          /\ ~protocol.handshake_finished
          /\ protocol.outbound = <<>>)
  /\ [][HandshakeReads =>
          LET c == Head(protocol.inbound).cmd
          IN /\ c.type \notin {"Handshake", "ReadError"} =>
                  /\ pc' = "failed"
                  /\ outcome' = ReceivedInvalidCommandDuringHandshake(c)
                  /\ ~protocol'.handshake_finished
                  /\ protocol'.outbound = <<>>
             /\ (c.type = "Handshake" /\ c.version < 1) =>
                  /\ pc' = "failed"
                  /\ outcome' = IncompatibleFrontendVersion(1, c.version)
                  /\ ~protocol'.handshake_finished
                  /\ protocol'.outbound = <<>>]_vars

\* C4 witness: the handshake read a Handshake of version 0 and failed
C4_Witness ==
  /\ pc = "failed"
  /\ outcome = IncompatibleFrontendVersion(1, 0)
  /\ protocol.next_log = <<1>>

\* C5 (amended): on a successful non-implied handshake, whatever version
\* v >= 1 and extensions e the Handshake command carries, the Handshake event
\* sent back carries version 1 (COMPATIBLE_PROTOCOL_VERSION) and no
\* extensions, and it is sent before handshake_finished becomes true: the
\* flag is never set without the reply written.
C5_HandshakeReply ==
  /\ []((~imply_start /\ protocol.handshake_finished) =>
          /\ protocol.outbound # <<>>
          /\ Head(protocol.outbound) = HandshakeEvent(COMPATIBLE_PROTOCOL_VERSION, <<>>))
  /\ [][HandshakeReads =>
          LET c == Head(protocol.inbound).cmd
          IN /\ (c.type = "Handshake" /\ c.version >= 1 /\ protocol.pipe_open) =>
                  /\ protocol'.handshake_finished
                  /\ protocol'.outbound = <<HandshakeEvent(1, <<>>)>>
             /\ protocol'.handshake_finished =>
                  (c.type = "Handshake" /\ c.version >= 1)]_vars

\* C5 witness: the explicit handshake succeeded with the reply written
C5_Witness ==
  /\ ~imply_start
  /\ pc = "load"
  /\ protocol.handshake_finished
  /\ protocol.outbound = <<HandshakeEvent(1, <<>>)>>

\* C5 as written: the reply carries the version and the extensions of the
\* Handshake command received.
C5_ReplyEchoes ==
  [][(HandshakeReads /\ protocol'.handshake_finished) =>
       protocol'.outbound =
         <<HandshakeEvent(Head(protocol.inbound).cmd.version,
                          Head(protocol.inbound).cmd.extensions)>>]_vars

\* The commands execute_command was given in this step, found by their line
\* among those waiting in the replay queue and in the channel
Pending == protocol.command_process_queue \o protocol.inbound
ExecutedNow ==
  LET new == SelectSeq(From(hist'.executed, Len(hist.executed)), LAMBDA n : n > 0)
  IN [i \in 1..Len(new) |->
        (CHOOSE j \in 1..Len(Pending) : Pending[j].seq = new[i]) ]

\* C6: is_executing never returns to false, so it changes from false to true
\* at most once; and a StartExecution executed while it is true (in setup, in
\* run_tasks or in a vsync slice, the first start implied or not) returns the
\* error "Cannot start execution twice" and leaves it true.
C6_StartOnce ==
  /\ [][sdk.is_executing => sdk'.is_executing]_vars
  /\ [][\A i \in 1..Len(ExecutedNow) :
          (/\ Pending[ExecutedNow[i]].cmd = StartExecution
           /\ \/ sdk.is_executing
              \/ \E j \in 1..(i - 1) : Pending[ExecutedNow[j]].cmd = StartExecution) =>
            /\ i = Len(ExecutedNow)
            /\ pc' = "failed"
            /\ outcome' = Anyhow("Cannot start execution twice")
            /\ sdk'.is_executing]_vars

\* C6 witness: after the implied start a StartExecution came on line 1 and
\* the run failed with is_executing still true
C6_Witness ==
  /\ imply_start
  /\ hist.executed = <<0, 1>>
  /\ pc = "failed"
  /\ outcome = Anyhow("Cannot start execution twice")
  /\ sdk.is_executing

\* Where the events of these types stand in the output
Pos(types) == {i \in 1..Len(protocol.outbound) : protocol.outbound[i].type \in types}

\* The main thread is in the guest's _entry
InGuest == pc \in {"guest", "wait", "vsync"}

\* C7: setup emits Ready exactly once and then executes the received
\* commands one at a time while is_executing is false; _entry is never
\* called with is_executing false; and with the implied start setup takes
\* no command from the channel.
C7_Setup ==
  /\ [](/\ Cardinality(Pos({"Ready"})) <= 1
        /\ (pc = "setup_loop" \/ InGuest) => Cardinality(Pos({"Ready"})) = 1
        /\ InGuest => sdk.is_executing
        /\ (imply_start /\ pc \in {"setup", "setup_loop"}) =>
             (protocol.next_log = <<>> /\ protocol.recv_log = <<>>))
  /\ [][(pc = "setup_loop" /\ hist' # hist) =>
          /\ ~sdk.is_executing
          /\ Len(hist'.executed) = Len(hist.executed) + 1
          /\ Len(protocol'.next_log) = Len(protocol.next_log) + 1]_vars
  /\ [][(pc = "setup_loop" /\ pc' = "guest") =>
          (sdk.is_executing /\ hist' = hist /\ protocol'.inbound = protocol.inbound)]_vars
  /\ [][(imply_start /\ pc \in {"setup", "setup_loop"}) =>
          Len(protocol'.inbound) >= Len(protocol.inbound)]_vars

\* C7 witness: after the handshake on line 1, setup executed line 2 and the
\* StartExecution of line 3, one Ready was sent and _entry is running
C7_Witness ==
  /\ ~imply_start
  /\ pc = "guest"
  /\ hist.executed = <<2, 3>>
  /\ sdk.is_executing
  /\ Cardinality(Pos({"Ready"})) = 1

\* The word the guest reads at addr (-1: not all of its bytes were written)
word_at(mem, addr) ==
  IF \A k \in 0..3 : (addr + k) \in DOMAIN mem.bytes
  THEN get_u32_le([k \in 1..4 |-> mem.bytes[addr + k - 1]], 0)
  ELSE -1

\* For every (address, func) of api the word at JUMP_TABLE_START + address
\* is the index of a slot of the table that holds func
JumpTableInstalled(api, t, mem) ==
  \A a \in DOMAIN api :
    LET ix == word_at(mem, JUMP_TABLE_START + a)
    IN ix >= 0 /\ ix < Len(t) /\ t[ix + 1] = api[a]

\* The jump table start() builds in a life-cycle run
LifecycleJumpTable == JumpTable_new(LifecycleApi).val

\* Where the events of the guest's host calls, and the trace that precedes
\* the call of _entry, stand in the output
GuestPos ==
  Pos({"TextMetricsRequest", "ScreenRender", "ScreenDoubleBufferMode", "Serial"})
  \cup {i \in 1..Len(protocol.outbound) :
          protocol.outbound[i] = LogEvent("Trace", "Calling _entry()")}

\* C8: in every run the Handshake reply (absent when the handshake is
\* implied, first otherwise) precedes VCodeSig, VCodeSig precedes Ready, and
\* Ready precedes the call of _entry and every event of a guest host call;
\* the jump table is installed when Ready is emitted.
C8_LifecycleOrder ==
  LET handshakes == Pos({"Handshake"})
      sigs == Pos({"VCodeSig"})
      readys == Pos({"Ready"})
      calls == GuestPos
  IN /\ imply_start => handshakes = {}
     /\ (~imply_start /\ protocol.outbound # <<>>) => handshakes = {1}
     /\ Cardinality(sigs) <= 1
     /\ \A h \in handshakes, v \in sigs : h < v
     /\ readys # {} => sigs # {}
     /\ \A v \in sigs, r \in readys : v < r
     /\ (calls # {} \/ InGuest) => readys # {}
     /\ \A r \in readys, g \in calls : r < g
     /\ readys # {} =>
          /\ Len(table) = program.table_min + LifecycleApi
          /\ JumpTableInstalled(LifecycleJumpTable, table, memory)

\* C8 witness: a run with an explicit handshake in which the guest rendered:
\* all four kinds of event are in the output
C8_Witness ==
  /\ ~imply_start
  /\ Pos({"Handshake"}) # {}
  /\ Pos({"VCodeSig"}) # {}
  /\ Pos({"Ready"}) # {}
  /\ Pos({"ScreenRender"}) # {}

\* C9 as written: executing one of the stubbed commands returns normally
\* without terminating the simulator, and the commands that follow it in a
\* drain of the pending commands are still executed.
C9_StubsReturn ==
  [][\A i \in 1..Len(ExecutedNow) :
       Pending[ExecutedNow[i]].cmd.type \in StubTypes =>
         /\ pc' \notin Ended
         /\ (InGuest /\ i < Len(Pending)) => Len(ExecutedNow) > i]_vars

\* C10: after expose with N registered entries and a table of initial size
\* base, the table size is base + N, the N indices assigned are pairwise
\* distinct and lie in [base, base + N), for every registered (address, func)
\* the little-endian word at JUMP_TABLE_START + address is an index whose
\* slot holds func, and no byte of the memory outside those N words is
\* written (nor is a slot the table had before).
C10_JumpTable ==
  pc = "setup" =>
    \E n \in 0..MaxApi :
      LET api == JumpTable_new(n).val
          base == program.table_min
          index == [a \in DOMAIN api |-> word_at(memory, JUMP_TABLE_START + a)]
      IN /\ protocol.outbound[Len(protocol.outbound)] =
              LogEvent("Trace", "Jump table exposed with " \o ToString(n) \o " functions")
         /\ Cardinality(DOMAIN api) = n
         /\ Len(table) = base + n
         /\ \A a \in DOMAIN api : index[a] >= base /\ index[a] < base + n
         /\ \A a, b \in DOMAIN api : a # b => index[a] # index[b]
         /\ JumpTableInstalled(api, table, memory)
         /\ DOMAIN memory.bytes =
              UNION {(JUMP_TABLE_START + a)..(JUMP_TABLE_START + a + 3) : a \in DOMAIN api}
         /\ \A k \in 1..base : table[k] = "null"
         /\ memory.pages = TARGET_PAGES

\* C10 witness: four functions exposed in a table of two slots, the function
\* registered first having been given the last index
C10_Witness ==
  /\ pc = "setup"
  /\ program.table_min = 2
  /\ Len(table) = 6
  /\ word_at(memory, JUMP_TABLE_START + 1600) = 5
  /\ table[6] = "vexDisplayForegroundColor"

\* start has sent "Booting..." and found the imported table and the memory
BootSizes ==
  /\ pc = "boot"
  /\ protocol'.outbound # protocol.outbound
  /\ program.imports_table
  /\ program.exports_memory

\* C11 as written: for every initial size of the guest's memory, sizes above
\* 0x700 pages included, the sizing step of start succeeds and leaves the
\* memory at least 0x700 pages large.
C11_SizingSucceeds ==
  [][BootSizes => (pc' = "jump_table" /\ memory'.pages >= TARGET_PAGES)]_vars

\* C12: for any (program_type, owner, flags), loading a program that compiles
\* and whose .cold_magic section is XVX5 followed by the three little-endian
\* words succeeds and yields ProgramOptions with that program_type and owner
\* and with the three booleans equal to bits 0, 1 and 2 of flags; the default
\* foreground/background colours, which the display starts with, are
\* white/black, swapped exactly when bit 0 is set.
C12_HeaderRoundTrip ==
  /\ pc \notin {"failed", "panicked"}
  /\ \A program_type \in HeaderWords, owner \in HeaderWords :
       \A b0 \in 0..1, b1 \in 0..1, b2 \in 0..1, hi \in 0..(MaxFlags \div 8) :
         (/\ pc # "load"
          /\ program.cold =
               ColdHeader(program_type, owner, b0 + 2 * b1 + 4 * b2 + 8 * hi)) =>
           LET o == sdk.program_options
           IN /\ o.program_type = program_type
              /\ o.owner = owner
              /\ o.invert_default_graphics_colors = (b0 = 1)
              /\ o.kill_threads_when_main_exits = (b1 = 1)
              /\ o.invert_graphics_based_on_theme = (b2 = 1)
              /\ default_fg_color(o) = IF b0 = 1 THEN BLACK ELSE WHITE
              /\ default_bg_color(o) = IF b0 = 1 THEN WHITE ELSE BLACK
              /\ pc = "jump_table" =>
                   /\ sdk.display.foreground_color = default_fg_color(o)
                   /\ sdk.display.background_color = default_bg_color(o)

\* C12 witness: a header with a program type above 2^16, owner 2 and flags
\* 5 was loaded and the simulator booted with inverted colours
C12_Witness ==
  /\ pc = "jump_table"
  /\ program.cold = ColdHeader(65538, 2, 5)
  /\ sdk.program_options.program_type = 65538
  /\ sdk.program_options.invert_graphics_based_on_theme
  /\ ~sdk.program_options.kill_threads_when_main_exits
  /\ sdk.display.foreground_color = BLACK

\* start has sent "Compiling..." and load_program has looked at the file
Loads ==
  /\ pc = "load"
  /\ protocol'.outbound # protocol.outbound
  /\ program'.readable

\* C13 as written: load_program returns an error value to its caller when
\* the binary has no .cold_magic section and when the first four bytes of
\* the section are not XVX5; in both cases no VCodeSig event is emitted.
C13_LoaderErrors ==
  [][(/\ Loads
      /\ \/ ~program'.has_cold
         \/ /\ Len(program'.cold) >= Len(HEADER_MAGIC)
            /\ SubSeq(program'.cold, 1, Len(HEADER_MAGIC)) # HEADER_MAGIC) =>
       (/\ pc' = "failed"
        /\ \A i \in 1..Len(protocol'.outbound) :
             protocol'.outbound[i].type # "VCodeSig")]_vars

\* The bytes of a cursor's array before its position
Before(c) == SubSeq(c.buf, 1, c.pos)

\* The guest's host call fn has returned in this step
Returns(fns) ==
  /\ guest'.calls = guest.calls + 1
  /\ guest'.last.fn \in fns

SerialWriters == {"vexSerialWriteChar", "vexSerialWriteBuffer"}
SerialReaders == {"vexSerialReadChar", "vexSerialPeekChar"}

\* C14: on channel 1, a write of B returns min(len(B), free), free being the
\* free space of the output buffer before the call, appends exactly that
\* many leading bytes of B to the output buffer (which never holds more
\* than 2048 bytes and holds the bytes accepted since the last flush), and
\* afterwards num_free_bytes(1), which vexSerialWriteFree returns, is 2048
\* minus the output cursor.
C14_WriteBound ==
  /\ [](/\ sdk.serial.stdout_buffer.pos <= STDOUT_BUFFER_SIZE
        /\ Before(sdk.serial.stdout_buffer) = hist.accepted)
  /\ [][(Returns(SerialWriters) /\ guest'.last.args[1] = 1) =>
          LET B == guest'.last.args[2]
              free == STDOUT_BUFFER_SIZE - sdk.serial.stdout_buffer.pos
              n == IF Len(B) <= free THEN Len(B) ELSE free
          IN /\ guest'.last.ret = n
             /\ Before(sdk'.serial.stdout_buffer) =
                  Before(sdk.serial.stdout_buffer) \o SubSeq(B, 1, n)
             /\ num_free_bytes(sdk'.serial, 1) =
                  Ok(STDOUT_BUFFER_SIZE - sdk'.serial.stdout_buffer.pos)
             /\ sdk'.serial.stdin_buffer = sdk.serial.stdin_buffer]_vars
  /\ [][(Returns({"vexSerialWriteFree"}) /\ guest'.last.args[1] = 1) =>
          guest'.last.ret = STDOUT_BUFFER_SIZE - Len(hist.accepted)]_vars

\* C14 witness: a write of two bytes into an output buffer with one byte
\* free returned 1 and filled the buffer
C14_Witness ==
  /\ guest.last.fn = "vexSerialWriteBuffer"
  /\ guest.last.args = <<1, <<7, 8>>>>
  /\ guest.last.ret = 1
  /\ sdk.serial.stdout_buffer.pos = STDOUT_BUFFER_SIZE
  /\ sdk.serial.stdout_buffer.buf[STDOUT_BUFFER_SIZE] = 7

\* The events sent in this step
NewEvents ==
  SubSeq(protocol'.outbound, Len(protocol.outbound) + 1, Len(protocol'.outbound))
IsSerial(e) == e.type = "Serial"

\* C15: if the bytes accepted by the writes on channel 1 since the last flush
\* are B, in write order, a vexTasksRun that returns has emitted exactly one
\* Serial event, on channel 1 and with payload B, and has reset the output
\* cursor to 0; when no byte was accepted it has emitted no Serial event.
C15_FlushFifo ==
  [][(Returns({"vexTasksRun"}) /\ pc' = "guest") =>
      /\ SelectSeq(NewEvents, IsSerial) =
           IF hist.accepted = <<>> THEN <<>> ELSE <<SerialEvent(1, hist.accepted)>>
      /\ sdk'.serial.stdout_buffer.pos = 0
      /\ hist'.accepted = <<>>]_vars

\* C15 witness: two writes, of <<7, 8>> and of the character 65, and then a
\* vexTasksRun that sent the three bytes in one event
C15_Witness ==
  /\ guest.last.fn = "vexTasksRun"
  /\ guest.calls = 3
  /\ pc = "guest"
  /\ protocol.outbound[Len(protocol.outbound)] = SerialEvent(1, <<7, 8, 65>>)
  /\ sdk.serial.stdout_buffer.pos = 0

\* C16: the input buffer up to its cursor holds the bytes buffer_input took
\* and no read has returned, oldest first; vexSerialReadChar on channel 1
\* returns the newest of them and removes it, and fails (-1) when there is
\* none, so that after buffer_input(1, b1..bn) into an empty buffer n reads
\* return bn, ..., b1 and the next fails; vexSerialPeekChar returns what the
\* next read would return and leaves the buffer and its cursor unchanged.
C16_InputLifo ==
  /\ [](Before(sdk.serial.stdin_buffer) = hist.input)
  /\ [][(Returns(SerialReaders) /\ guest'.last.args[1] = 1) =>
          /\ guest'.last.ret =
               IF hist.input = <<>> THEN -1 ELSE hist.input[Len(hist.input)]
          /\ guest'.last.ret =
               vexSerialReadChar(sdk.serial, 1).ret
          /\ IF guest'.last.fn = "vexSerialPeekChar"
             THEN sdk'.serial = sdk.serial
             ELSE /\ sdk'.serial.stdin_buffer.buf = sdk.serial.stdin_buffer.buf
                  /\ Before(sdk'.serial.stdin_buffer) =
                       SubSeq(hist.input, 1, Len(hist.input) - 1)]_vars

\* C16 witness: <<5, 6>> was buffered into the empty input buffer, two reads
\* followed (the first returned 6), and the fourth call, a read, failed: the
\* cursor is back at 0
C16_Witness ==
  /\ hist.executed = <<0, 1>>
  /\ sdk.serial.stdin_buffer = [buf |-> <<5, 6>>, pos |-> 0]
  /\ guest.calls = 4
  /\ guest.last.fn = "vexSerialReadChar"
  /\ guest.last.args = <<1>>
  /\ guest.last.ret = -1

SerialCalls == SerialWriters \cup SerialReaders \cup {"vexSerialWriteFree"}

StringCalls == {"vexDisplayStringWidthGet"}
\* The cache holds the metrics of text t
Cached(t) ==
  /\ sdk.display.text_metrics_cache.some
  /\ sdk.display.text_metrics_cache.val[1] = t

\* C18: the cache holds at most one entry, a (text, metrics) pair.
\* get_text_metrics(t) returns at once, with the cached metrics and without
\* emitting anything or touching the cache, exactly when the cached text is
\* t; otherwise it emits exactly one TextMetricsRequest for t, emits nothing
\* while it waits, and replaces the entry with (t, metrics of the reply),
\* which it returns; hence a call for the text of the call just before it
\* emits nothing.
C18_MetricsCache ==
  /\ [](sdk.display.text_metrics_cache.some =>
          sdk.display.text_metrics_cache.val \in Texts \X Metrics)
  /\ [][(pc = "guest" /\ Returns(StringCalls)) =>
          /\ Cached(guest'.last.args[1])
          /\ guest'.last.ret = sdk.display.text_metrics_cache.val[2]
          /\ NewEvents = <<>>
          /\ sdk' = sdk]_vars
  /\ [][(pc = "guest" /\ pc' = "wait") =>
          /\ ~Cached(guest'.text.val)
          /\ NewEvents = <<TextMetricsRequest(guest'.text.val)>>
          /\ sdk' = sdk]_vars
  /\ [][(pc = "wait" /\ protocol'.recv_log # protocol.recv_log) =>
          LET m == Head(protocol.inbound).cmd
              t == guest.text.val
          IN /\ NewEvents = <<>>
             /\ IF m.type = "SetTextMetrics" /\ m.text = t
                THEN /\ pc' = "guest"
                     /\ sdk'.display.text_metrics_cache = Some(<<t, m.metrics>>)
                     /\ guest'.last.fn \in StringCalls
                     /\ guest'.last.args = <<t>>
                     /\ guest'.last.ret = m.metrics
                ELSE pc' = "wait" /\ sdk' = sdk]_vars
  /\ [][(/\ pc = "guest"
          /\ guest.last.fn \in StringCalls
          /\ guest'.calls = guest.calls + 1
          /\ \/ pc' = "wait" /\ guest'.text.val = guest.last.args[1]
             \/ /\ guest'.last.fn \in StringCalls
                /\ guest'.last.args[1] = guest.last.args[1]) =>
          (NewEvents = <<>> /\ pc' = "guest")]_vars

\* C18 witness: the guest's first call asked for the metrics of a text and
\* waited for the reply, which gave the wide metrics; its second call, for
\* the same text, returned them from the cache: one request was emitted
C18_Witness ==
  /\ pc = "guest"
  /\ guest.calls = 2
  /\ guest.last.fn \in StringCalls
  /\ guest.last.ret = Wide
  /\ Len(hist.waits) = 1
  /\ hist.waits[1].call = 1
  /\ Cardinality(Pos({"TextMetricsRequest"})) = 1

IsMode(e) == e.type = "ScreenDoubleBufferMode"
IsScreen(e) == e.type \in {"ScreenDoubleBufferMode", "ScreenRender"}
\* The ScreenDoubleBufferMode events sent so far, and those sent in this step
Modes == SelectSeq(protocol.outbound, IsMode)
NewModes == SelectSeq(NewEvents, IsMode)
\* set_double_buffered(x) has been called in this step and has returned
SetsDoubleBuffered(x) ==
  /\ pc = "guest"
  /\ guest'.calls = guest.calls + 1
  /\ IF x THEN pc' = "vsync" \/ guest'.last.fn = "vexDisplayRender"
     ELSE guest'.last.fn = "vexDisplayDoubleBufferDisable"

\* C19: set_double_buffered(x) emits ScreenDoubleBufferMode{enable: x}
\* exactly when the stored flag differs from x (and then stores x), so a
\* call with the value the flag already has emits nothing; no step emits
\* two such events, the flag changes only where one is emitted (or where its
\* send fails, which ends the run), and the enable values emitted alternate,
\* starting with true.
C19_DoubleBufferToggle ==
  /\ [](\A i \in 1..Len(Modes) : Modes[i].enable = (i % 2 = 1))
  /\ [](pc \notin Ended => sdk.display.double_buffered = (Len(Modes) % 2 = 1))
  /\ [][\A x \in BOOLEAN :
          SetsDoubleBuffered(x) =>
            /\ NewModes = IF sdk.display.double_buffered # x
                          THEN <<ScreenDoubleBufferMode(x)>> ELSE <<>>
            /\ sdk'.display.double_buffered = x]_vars
  /\ [][/\ Len(NewModes) <= 1
        /\ sdk'.display.double_buffered # sdk.display.double_buffered =>
             \/ NewModes = <<ScreenDoubleBufferMode(sdk'.display.double_buffered)>>
             \/ pc' = "failed" /\ ~protocol.pipe_open]_vars

\* C19 witness: the guest rendered and then twice turned double buffering
\* off: one event for the render's transition, one for the two calls
C19_Witness ==
  /\ guest.calls = 3
  /\ guest.last.fn = "vexDisplayDoubleBufferDisable"
  /\ SelectSeq(protocol.outbound, IsScreen) =
       <<ScreenDoubleBufferMode(TRUE), ScreenRender, ScreenDoubleBufferMode(FALSE)>>

\* C20: a step that emits ScreenRender emits, just before it,
\* ScreenDoubleBufferMode{enable: true} exactly when the mode was off, and
\* leaves the mode on: every ScreenRender in the output comes after an odd
\* number of mode events (the mode is on), and the render that follows a
\* vexDisplayDoubleBufferDisable turns the mode on again.
C20_RenderForcesMode ==
  /\ [](\A i \in 1..Len(protocol.outbound) :
          protocol.outbound[i].type = "ScreenRender" =>
            Len(SelectSeq(SubSeq(protocol.outbound, 1, i), IsMode)) % 2 = 1)
  /\ [][(\E i \in 1..Len(NewEvents) : NewEvents[i].type = "ScreenRender") =>
          /\ NewEvents =
               (IF sdk.display.double_buffered THEN <<>>
                ELSE <<ScreenDoubleBufferMode(TRUE)>>) \o <<ScreenRender>>
          /\ sdk'.display.double_buffered]_vars
  /\ [][(SetsDoubleBuffered(TRUE) /\ guest.last.fn = "vexDisplayDoubleBufferDisable") =>
          /\ NewEvents = <<ScreenDoubleBufferMode(TRUE), ScreenRender>>
          /\ sdk'.display.double_buffered]_vars

\* C20 witness: render, vexDisplayDoubleBufferDisable, render: the second
\* render turned the mode on again before its ScreenRender
C20_Witness ==
  /\ guest.calls = 3
  /\ guest.last.fn = "vexDisplayRender"
  /\ sdk.display.double_buffered
  /\ SelectSeq(protocol.outbound, IsScreen) =
       <<ScreenDoubleBufferMode(TRUE), ScreenRender, ScreenDoubleBufferMode(FALSE),
         ScreenDoubleBufferMode(TRUE), ScreenRender>>

\* Seconds since the program started, as the header's timer may show them
ElapsedSecs == {0, 9, 75, 600}
\* The events draw_header sends on an open pipe
HeaderEvents(display, elapsed) ==
  draw_header(display, [Protocol_open EXCEPT !.handshake_finished = TRUE], elapsed).p.outbound

\* C21: every vexDisplayRender that returns (or enters its vsync wait) has
\* sent the two events of the header, the Fill of (0,0)-(480,32) in HEADER_BG
\* and the Write of the m:ss timer at (240, 3) in TimerMono / Large, and has
\* left the foreground and background colours as they were.
C21_HeaderPainted ==
  [][SetsDoubleBuffered(TRUE) =>
       /\ \E elapsed \in ElapsedSecs :
            \A j \in 1..2 : \E i \in 1..Len(NewEvents) :
               NewEvents[i] = HeaderEvents(sdk.display, elapsed)[j]
       /\ sdk'.display.foreground_color = sdk.display.foreground_color
       /\ sdk'.display.background_color = sdk.display.background_color]_vars

\* C22: vexDisplayForegroundColor(c) leaves the foreground colour that
\* vexDisplayForegroundColorGet reports as c & 0x00FFFFFF and does not
\* change the background colour; the query returns the packed colour stored,
\* which right after a call of the setter is that call's c & 0x00FFFFFF, and
\* changes nothing. The same holds with foreground and background exchanged.
C22_ColourPack ==
  /\ [][Returns({"vexDisplayForegroundColor"}) =>
          /\ vexDisplayForegroundColorGet(sdk'.display) = guest'.last.args[1] % 16777216
          /\ sdk'.display.background_color = sdk.display.background_color]_vars
  /\ [][Returns({"vexDisplayBackgroundColor"}) =>
          /\ vexDisplayBackgroundColorGet(sdk'.display) = guest'.last.args[1] % 16777216
          /\ sdk'.display.foreground_color = sdk.display.foreground_color]_vars
  /\ [][Returns({"vexDisplayForegroundColorGet"}) =>
          /\ guest'.last.ret = pack_rgb(sdk.display.foreground_color)
          /\ guest.last.fn = "vexDisplayForegroundColor" =>
               guest'.last.ret = guest.last.args[1] % 16777216
          /\ sdk' = sdk]_vars
  /\ [][Returns({"vexDisplayBackgroundColorGet"}) =>
          /\ guest'.last.ret = pack_rgb(sdk.display.background_color)
          /\ guest.last.fn = "vexDisplayBackgroundColor" =>
               guest'.last.ret = guest.last.args[1] % 16777216
          /\ sdk' = sdk]_vars

\* C22 witness: after vexDisplayForegroundColor(0x01123456) the query has
\* returned 0x123456, the background still being the default black
C22_Witness ==
  /\ guest.last.fn = "vexDisplayForegroundColorGet"
  /\ guest.last.ret = 1193046
  /\ sdk.display.background_color = BLACK

ClipCalls == {"vexDisplayClipRegionSet", "vexDisplayClipRegionSetWithIndex"}
InClip(pt) ==
  /\ 0 <= pt.x /\ pt.x <= DISPLAY_WIDTH
  /\ HEADER_HEIGHT <= pt.y /\ pt.y <= DISPLAY_HEIGHT
\* The component-wise clamp of the rectangle (a[1], a[2])-(a[3], a[4])
Clamped(a) ==
  [top_left |-> Point(IF a[1] < 0 THEN 0 ELSE IF a[1] > 480 THEN 480 ELSE a[1],
                      IF a[2] < 32 THEN 32 ELSE IF a[2] > 272 THEN 272 ELSE a[2]),
   bottom_right |-> Point(IF a[3] < 0 THEN 0 ELSE IF a[3] > 480 THEN 480 ELSE a[3],
                          IF a[4] < 32 THEN 32 ELSE IF a[4] > 272 THEN 272 ELSE a[4])]

\* C23: both corners of the clip region always satisfy 0 <= x <= 480 and
\* 32 <= y <= 272. The region changes only in a vexDisplayClipRegionSet or a
\* vexDisplayClipRegionSetWithIndex(0, ...) call, to the component-wise clamp
\* of the call's arguments; a WithIndex call with another index leaves the
\* region as it was and sends a warning log.
C23_ClipRegion ==
  /\ [](InClip(sdk.display.clip_region.top_left) /\ InClip(sdk.display.clip_region.bottom_right))
  /\ [][Returns({"vexDisplayClipRegionSet"}) =>
          sdk'.display.clip_region = Clamped(guest'.last.args)]_vars
  /\ [][Returns({"vexDisplayClipRegionSetWithIndex"}) =>
          IF guest'.last.args[1] = 0
          THEN /\ sdk'.display.clip_region = Clamped(Tail(guest'.last.args))
               /\ NewEvents = <<>>
          ELSE /\ sdk'.display.clip_region = sdk.display.clip_region
               /\ Len(NewEvents) >= 1
               /\ \A i \in 1..Len(NewEvents) :
                    NewEvents[i].type = "Log" /\ NewEvents[i].level = "Warn"]_vars
  /\ [][sdk'.display.clip_region # sdk.display.clip_region => Returns(ClipCalls)]_vars

\* C23 witness: a call with the corners (i32::MAX, -i32::MAX) and
\* (-i32::MAX, i32::MAX) was clamped to (480,32)-(0,272), and a later WithIndex
\* call with index 1 and another rectangle has left that region and warned
C23_Witness ==
  /\ guest.calls = 2
  /\ guest.last.fn = "vexDisplayClipRegionSetWithIndex"
  /\ guest.last.args = <<1, 10, 40, 100, 200>>
  /\ sdk.display.clip_region = [top_left |-> Point(480, 32), bottom_right |-> Point(0, 272)]
  /\ protocol.outbound[Len(protocol.outbound)].type = "Log"

\* C24: a vexDisplayVPrintf that returns has sent one Write draw command whose
\* opaque flag is true exactly when the guest's opaque argument is non-zero,
\* with the current background colour as its background.
C24_OpaqueFlag ==
  [][Returns({"vexDisplayVPrintf"}) =>
       /\ Len(NewEvents) = 1
       /\ NewEvents[1].type = "ScreenDraw"
       /\ NewEvents[1].command.draw = "Write"
       /\ NewEvents[1].command.opaque = (guest'.last.args[3] # 0)
       /\ NewEvents[1].command.background = sdk.display.background_color]_vars

ControllerCalls == {"vexControllerGet", "vexControllerConnectionStatusGet"}
\* The ControllerUpdate commands execute_command was given in this step
UpdatesNow ==
  SelectSeq([i \in 1..Len(ExecutedNow) |-> Pending[ExecutedNow[i]].cmd],
            LAMBDA c : c.type = "ControllerUpdate")
\* The slot a controller call that returned was made for, before and after
Slot == sdk.inputs.controllers[guest'.last.args[1] + 1]
SlotAfter == sdk'.inputs.controllers[guest'.last.args[1] + 1]
Frozen(s) == Some([current_state |-> s, sdl_guid |-> None, sdl_controller |-> None])
\* What vexControllerGet returns of state s for the index of the call
Field(s) ==
  IF guest'.last.args[2] = 0 THEN s.axis1 ELSE IF s.button_a THEN 1 ELSE 0

\* C25: a vexTasksRun whose last ControllerUpdate was (Raw(s), None) leaves
\* slot 0 holding s with no device and slot 1 empty; a slot set from Raw does
\* not change in a step that executes no ControllerUpdate; and for a slot set
\* from Raw with state s, vexControllerGet(id, 0) returns s.axis1,
\* vexControllerGet(id, 17) returns 1 if s.button_a and 0 otherwise, and
\* vexControllerConnectionStatusGet(id) returns 1, while it returns 0 for an
\* empty slot.
C25_RawController ==
  /\ [][(UpdatesNow # <<>> /\ pc' = "guest") =>
          LET u == UpdatesNow[Len(UpdatesNow)]
          IN (u.primary.kind = "Raw" /\ u.partner.kind = "None") =>
               sdk'.inputs.controllers = <<Frozen(u.primary.state), None>>]_vars
  /\ [][UpdatesNow = <<>> =>
          \A i \in 1..2 :
             (sdk.inputs.controllers[i].some /\ ~sdk.inputs.controllers[i].val.sdl_guid.some)
               => sdk'.inputs.controllers[i] = sdk.inputs.controllers[i]]_vars
  /\ [][(Returns(ControllerCalls) /\ Slot.some /\ ~Slot.val.sdl_guid.some) =>
          /\ guest'.last.ret =
               IF guest'.last.fn = "vexControllerGet" THEN Field(Slot.val.current_state)
               ELSE 1
          /\ sdk' = sdk]_vars
  /\ [][(Returns(ControllerCalls) /\ ~Slot.some) =>
          guest'.last.ret = 0 /\ sdk' = sdk]_vars

\* C25 witness: ControllerUpdate(Raw(B), None) was executed by a vexTasksRun
\* and, one host call later, vexControllerGet(0, 0) returned B's axis1
C25_Witness ==
  /\ guest.calls = 3
  /\ guest.last.fn = "vexControllerGet"
  /\ guest.last.args = <<0, 0>>
  /\ guest.last.ret = -127
  /\ sdk.inputs.controllers = <<Frozen(ControllerStateB), None>>
  /\ hist.executed = <<0, 1>>

\* The device of a bound slot is at hand: the last Inputs::update opened it
\* and SDL reports it attached when the call asks
Available == Slot.val.sdl_controller.some /\ guest'.last.sdl.attached

\* C26 (as the code has it): a slot bound to a device UUID reports connected
\* only while the input source has the device. A call for a bound slot returns
\* connected = 1, or the field of current_state, when the last run_tasks opened
\* the device and it is still attached; otherwise
\* vexControllerConnectionStatusGet returns 0, vexControllerGet returns 0 for
\* every index, and the slot forgets the device it had opened. The call never
\* changes current_state.
C26_BoundNeedsDevice ==
  [][(Returns(ControllerCalls) /\ Slot.some /\ Slot.val.sdl_guid.some) =>
       /\ guest'.last.ret =
            IF ~Available THEN 0
            ELSE IF guest'.last.fn = "vexControllerGet" THEN Field(Slot.val.current_state)
            ELSE 1
       /\ SlotAfter.some
       /\ SlotAfter.val.current_state = Slot.val.current_state
       /\ SlotAfter.val.sdl_guid = Slot.val.sdl_guid
       /\ SlotAfter.val.sdl_controller = IF Available THEN Slot.val.sdl_controller ELSE None]_vars

\* C26 witness: the device was opened by a vexTasksRun, which read axis1 = 50
\* from it, and was detached when vexControllerGet(0, 0) asked: the call
\* returned 0 and the slot still holds 50
C26_Witness ==
  /\ guest.last.fn = "vexControllerGet"
  /\ guest.last.args = <<0, 0>>
  /\ ~guest.last.sdl.attached
  /\ guest.last.ret = 0
  /\ sdk.inputs.controllers[1].some
  /\ sdk.inputs.controllers[1].val.sdl_guid.some
  /\ sdk.inputs.controllers[1].val.current_state = ControllerStateA

\* C26 (as stated): a bound slot reports connected whether or not the device
\* is there, and vexControllerGet returns its last-known current_state
C26_BoundStaysConnected ==
  [][(Returns(ControllerCalls) /\ Slot.some /\ Slot.val.sdl_guid.some) =>
       guest'.last.ret =
         IF guest'.last.fn = "vexControllerGet" THEN Field(Slot.val.current_state)
         ELSE 1]_vars

\* The CompetitionMode commands execute_command was given in this step
ModesNow ==
  SelectSeq([i \in 1..Len(ExecutedNow) |-> Pending[ExecutedNow[i]].cmd],
            LAMBDA c : c.type = "CompetitionMode")
Bit(n, k) == (n \div (2 ^ k)) % 2 = 1

\* C27: competition_mode is the default record until a CompetitionMode
\* command is executed and then the record of the last one executed; a
\* vexCompetitionStatus call returns a value below 16 with bit 0 set iff that
\* record is not enabled, bit 1 iff its mode is Auto, bit 2 iff it is
\* connected and bit 3 iff is_competition, and changes nothing.
C27_CompetitionStatus ==
  /\ [](hist.executed = <<0>> => sdk.competition_mode = DefaultCompetitionMode)
  /\ [][IF ModesNow # <<>> THEN sdk'.competition_mode = ModesNow[Len(ModesNow)].mode
        ELSE sdk'.competition_mode = sdk.competition_mode]_vars
  /\ [][Returns({"vexCompetitionStatus"}) =>
          /\ guest'.last.ret \in 0..15
          /\ Bit(guest'.last.ret, 0) = ~sdk.competition_mode.enabled
          /\ Bit(guest'.last.ret, 1) = (sdk.competition_mode.mode = "Auto")
          /\ Bit(guest'.last.ret, 2) = sdk.competition_mode.connected
          /\ Bit(guest'.last.ret, 3) = sdk.competition_mode.is_competition
          /\ sdk' = sdk /\ protocol' = protocol]_vars

\* C27 witness: after the command for (enabled, Auto, connected, no field
\* control) was executed, vexCompetitionStatus returned AUTONOMOUS | CONNECTED
C27_Witness ==
  /\ guest.last.fn = "vexCompetitionStatus"
  /\ guest.last.ret = 6
  /\ sdk.competition_mode = AutoCompetitionMode
  /\ Len(hist.executed) >= 2

\* The byte of a memory at address a (0 where nothing was written)
ByteAt(mem, a) == IF a \in DOMAIN mem.bytes THEN mem.bytes[a] ELSE 0

\* C28: vex_vsnprintf(buf, size, fmt, args) whose formatted output has L bytes
\* returns L, having written the first min(size, L) bytes of the output at
\* buf and changed no other byte of the guest's memory; when formatting fails
\* it returns -1 and writes nothing.
C28_Vsnprintf ==
  [][(Returns({"vex_vsnprintf"}) /\ guest'.last.args[3].readable) =>
       LET buf == guest'.last.args[1]
           size == guest'.last.args[2]
           fmt == guest'.last.args[3]
           n == IF size < Len(fmt.bytes) THEN size ELSE Len(fmt.bytes)
       IN /\ pc' = "guest"
          /\ guest'.last.ret = IF fmt.ok THEN Len(fmt.bytes) ELSE -1
          /\ \A a \in (DOMAIN memory.bytes) \cup (DOMAIN memory'.bytes) :
               ByteAt(memory', a) =
                 IF fmt.ok /\ a >= buf /\ a < buf + n THEN fmt.bytes[a - buf + 1]
                 ELSE ByteAt(memory, a)
          /\ fmt.ok => \A i \in 1..n : ByteAt(memory', buf + i - 1) = fmt.bytes[i]]_vars

\* C29: the reader thread pushes into a bounded channel: the commands read
\* from stdin and not yet taken by the main thread never exceed a fixed
\* capacity, the reader blocking when the channel is full. Were there such a
\* capacity, a frontend that writes more lines than it holds while the guest
\* takes none would find the reader blocked before its last line: the
\* commands waiting in the channel would stay below the lines written.
C29_BoundedChannel == Len(protocol.inbound) < MaxCmds

\* The bytes Serial::flush would send from this state, and whether a slot is
\* bound to a device and has its SDL controller open
Unflushed == SubSeq(sdk.serial.stdout_buffer.buf, 1, sdk.serial.stdout_buffer.pos)
Opened(c) == c.some /\ c.val.sdl_guid.some /\ c.val.sdl_controller.some
BindsPrimary(m) == m.cmd.type = "ControllerUpdate" /\ m.cmd.primary.kind = "UUID"

SchedulerSlice ==
  /\ pc = "vsync" /\ guest.run_scheduler
  /\ lines' = lines
  /\ protocol'.pipe_open = protocol.pipe_open
  /\ pc' # "guest"

\* C31: vexDisplayRender(vsync_wait, run_scheduler) sends the render event
\* first; with both arguments non-zero every wait slice drains all pending
\* commands and refreshes the peripherals, the serial output being flushed
\* as run_tasks flushes it; with vsync_wait zero the call consumes no
\* command.
C31_RenderScheduler ==
  /\ [][SetsDoubleBuffered(TRUE) =>
          /\ NewEvents # <<>>
          /\ NewEvents[Len(NewEvents)] = ScreenRender
          /\ hist'.executed = hist.executed
          /\ protocol'.inbound = protocol.inbound
          /\ protocol'.command_process_queue = protocol.command_process_queue]_vars
  /\ [][(SchedulerSlice /\ pc' = "vsync") =>
          /\ From(hist'.executed, Len(hist.executed)) = Seqs(Pending)
          /\ protocol'.inbound = <<>>
          /\ protocol'.command_process_queue = <<>>
          /\ sdk'.serial.stdout_buffer.pos = 0
          /\ NewEvents = IF Unflushed = <<>> THEN <<>>
                         ELSE <<SerialEvent(1, Unflushed)>>]_vars
  /\ [][(pc = "vsync" /\ ~guest.run_scheduler) =>
          hist'.executed = hist.executed]_vars

\* setup is running or about to, and what waits before the (first)
\* StartExecution are commands that succeed
InSetup == pc \in {"setup", "setup_loop"}
SetupCommands == {"ControllerUpdate", "CompetitionMode", "SetTextMetrics", "Serial"}
StartPending ==
  /\ InSetup
  /\ \E i \in 1..Len(Pending) :
       /\ Pending[i].cmd = StartExecution
       /\ \A j \in 1..(i - 1) : Pending[j].cmd.type \in SetupCommands
\* The lines setup has executed are those from first on, in order
ExecutedFrom(first) ==
  hist.executed = [i \in 1..Len(hist.executed) |-> first + i - 1]

Replies == metrics_reply(guest.text.val)
ReplyWaits(n, m, clean) ==
  /\ pc = "wait" /\ guest.calls = n
  /\ \E i \in 1..Len(protocol.inbound) :
       /\ protocol.inbound[i].cmd = SetTextMetrics(guest.text.val, m)
       /\ \A j \in 1..(i - 1) :
            /\ protocol.inbound[j].cmd \notin Replies
            /\ clean => protocol.inbound[j].cmd.type # "Handshake"
ReplyReturned(n, m) ==
  /\ pc = "guest" /\ guest.calls = n
  /\ guest.last.fn = "vexDisplayStringWidthGet"
  /\ guest.last.ret = m
  /\ sdk.display.text_metrics_cache = Some(<<guest.last.args[1], m>>)

Range(s) == {s[i] : i \in 1..Len(s)}
NoRepeat(s) == \A i, j \in 1..Len(s) : s[i] = s[j] => i = j

\* C34: the replay mechanism loses and duplicates nothing. The commands read
\* from the channel are, each once, those a wait_for_command returned, those
\* next / try_next handed out, and those still in the replay queue; a
\* command leaves the replay queue only by next / try_next handing it out;
\* and a turn of wait_for_command leaves the replay queue as it was or
\* appends to it the command it read.
C34_NoLossNoDup ==
  /\ [](/\ Range(protocol.recv_log) =
             Returned \cup Range(protocol.next_log) \cup Range(Seqs(protocol.command_process_queue))
        /\ NoRepeat(protocol.recv_log)
        /\ NoRepeat(protocol.next_log \o Seqs(protocol.command_process_queue))
        /\ Returned \cap Range(protocol.next_log \o Seqs(protocol.command_process_queue)) = {}
        /\ Cardinality(Returned) = Len(hist.waits))
  /\ [][\A n \in Range(Seqs(protocol.command_process_queue)) :
          n \in Range(Seqs(protocol'.command_process_queue)) \/
          n \in Range(From(protocol'.next_log, Len(protocol.next_log)))]_vars
  /\ [][pc = "wait" =>
          \/ protocol'.command_process_queue = protocol.command_process_queue
          \/ /\ protocol.inbound # <<>>
             /\ protocol'.command_process_queue =
                  Append(protocol.command_process_queue, protocol.inbound[1])]_vars

\* A wait deferred line 1 and returned line 2; vexTasksRun then handed out
\* line 1 from the replay queue and line 3 from the channel
C34_Witness ==
  /\ Len(hist.waits) = 1 /\ hist.waits[1].ret = 2
  /\ protocol.recv_log = <<1, 2, 3>>
  /\ protocol.next_log = <<1, 3>>
  /\ protocol.command_process_queue = <<>>

\* The SetTextMetrics commands execute_command was given in this step
MetricsNow ==
  SelectSeq([i \in 1..Len(ExecutedNow) |-> Pending[ExecutedNow[i]].cmd],
            LAMBDA c : c.type = "SetTextMetrics")
\* The text of the get_text_metrics call that begins in this step
Asked == IF pc' = "wait" THEN guest'.text.val ELSE guest'.last.args[1]
AsksMetrics ==
  /\ pc = "guest" /\ guest'.calls = guest.calls + 1
  /\ pc' = "wait" \/ guest'.last.fn \in StringCalls

C36_WriteAllOrNothing ==
  /\ [][(Returns({"vex_vprintf"}) /\ pc' = "guest") =>
          LET fmt == guest'.last.args[1]
              fits == Len(fmt.bytes) <= STDOUT_BUFFER_SIZE - sdk.serial.stdout_buffer.pos
          IN /\ guest'.last.ret = IF fmt.ok /\ fits THEN Len(fmt.bytes) ELSE -1
             /\ guest'.last.ret = -1 => sdk'.serial = sdk.serial
             /\ guest'.last.ret # -1 =>
                  /\ sdk'.serial.stdout_buffer.pos =
                       sdk.serial.stdout_buffer.pos + Len(fmt.bytes)
                  /\ SubSeq(sdk'.serial.stdout_buffer.buf, 1, sdk'.serial.stdout_buffer.pos) =
                       Unflushed \o fmt.bytes]_vars
  /\ [][(Returns({"vexTasksRun"}) /\ pc' = "guest") =>
          NewEvents = IF hist.accepted = <<>> THEN <<>>
                      ELSE <<SerialEvent(1, hist.accepted)>>]_vars

\* The Serial commands execute_command was given in this step
SerialNow ==
  SelectSeq([i \in 1..Len(ExecutedNow) |-> Pending[ExecutedNow[i]].cmd],
            LAMBDA c : c.type = "Serial")

\* C37: the output cursor stays within 0..2048 and the input cursor within
\* 0..4096; vexSerialReadChar and vexSerialPeekChar on an empty input buffer
\* fail and leave the cursor at 0; and a Serial command whose data does not
\* fit in the free space of the input buffer fails and leaves the input
\* buffer and its cursor as they were.
C37_CursorBounds ==
  /\ [](/\ sdk.serial.stdout_buffer.pos \in 0..STDOUT_BUFFER_SIZE
        /\ sdk.serial.stdin_buffer.pos \in 0..STDIN_BUFFER_SIZE)
  /\ [][(/\ Returns({"vexSerialReadChar", "vexSerialPeekChar"})
         /\ sdk.serial.stdin_buffer.pos = 0) =>
          /\ guest'.last.ret = -1
          /\ sdk'.serial = sdk.serial]_vars
  /\ [][(/\ Len(SerialNow) = 1
         /\ SerialNow[1].channel = 1 /\ SerialNow[1].data.ok) =>
          IF Len(SerialNow[1].data.bytes) <= STDIN_BUFFER_SIZE - sdk.serial.stdin_buffer.pos
          THEN /\ pc' = pc
               /\ sdk'.serial.stdin_buffer.pos =
                    sdk.serial.stdin_buffer.pos + Len(SerialNow[1].data.bytes)
          ELSE /\ pc' = "failed"
               /\ sdk'.serial.stdin_buffer = sdk.serial.stdin_buffer]_vars

\* Whether Guid::from_string accepts the UUID of an update, if it has one
Parses(u) == u.kind = "UUID" => u.uuid \in ValidGuids
\* Slot c holds what set_controller and the refresh of run_tasks make of u
Replaced(u, c) ==
  CASE u.kind = "None" -> c = None
    [] u.kind = "Raw" -> c = Frozen(u.state)
    [] u.kind = "UUID" -> c.some /\ c.val.sdl_guid = Some(u.uuid)

\* C38 (as claimed): a vexTasksRun whose only command is a ControllerUpdate
\* leaves both slots as they were when the command fails, and has replaced
\* both, a None update clearing its slot, when it succeeds.
C38_UpdateAtomic ==
  [][Len(UpdatesNow) = 1 =>
       LET u == UpdatesNow[1]
       IN IF pc' = "failed"
          THEN sdk'.inputs.controllers = sdk.inputs.controllers
          ELSE /\ Replaced(u.primary, sdk'.inputs.controllers[1])
               /\ Replaced(u.partner, sdk'.inputs.controllers[2])]_vars

\* C38 (as the code has it): ControllerUpdate(primary, partner) is applied
\* slot by slot, primary first. It fails exactly when one of the UUIDs does
\* not parse; when primary's does not, neither slot is changed; when
\* partner's does not, slot 0 has been replaced from primary and slot 1 is
\* unchanged; when the command succeeds both slots are replaced, a None update
\* clearing its slot.
C38_UpdateInOrder ==
  [][Len(UpdatesNow) = 1 =>
       LET u == UpdatesNow[1]
       IN /\ (pc' = "failed") = (~Parses(u.primary) \/ ~Parses(u.partner))
          /\ pc' \in {"failed", "guest"}
          /\ IF ~Parses(u.primary)
             THEN sdk'.inputs.controllers = sdk.inputs.controllers
             ELSE IF ~Parses(u.partner)
               THEN /\ Replaced(u.primary, sdk'.inputs.controllers[1])
                    /\ sdk'.inputs.controllers[2] = sdk.inputs.controllers[2]
             ELSE /\ Replaced(u.primary, sdk'.inputs.controllers[1])
                  /\ Replaced(u.partner, sdk'.inputs.controllers[2])]_vars
\* A run that ended on a partner UUID that does not parse, after an earlier
\* update had set slot 0 to another state and cleared slot 1
C38_Witness ==
  /\ pc = "failed"
  /\ outcome = Anyhow("invalid guid")
  /\ hist.executed = <<0, 1, 2>>
  /\ sdk.inputs.controllers = <<Frozen(ControllerStateA), None>>

\* The V5_ControllerIndex that the alias Axis k names: Axis1 = AnaRightX,
\* Axis2 = AnaRightY, Axis3 = AnaLeftY, Axis4 = AnaLeftX
AxisAlias(k) == CASE k = 1 -> 2 [] k = 2 -> 3 [] k = 3 -> 1 [] k = 4 -> 0
\* The field axis k of a ControllerState
AxisField(s, k) ==
  CASE k = 1 -> s.axis1 [] k = 2 -> s.axis2 [] k = 3 -> s.axis3 [] k = 4 -> s.axis4
\* The slot of the call holds a state the host hands out: it was set from Raw,
\* or it is bound to a device that is opened and attached
Present == Slot.some /\ (Slot.val.sdl_guid.some => Available)

\* C39 (as claimed): vexControllerGet(id, i) with i the index that the alias
\* Axis k names returns current_state.axis k of a present slot, and 0 for an
\* absent slot.
C39_AliasAxes ==
  [][Returns({"vexControllerGet"}) =>
       \A k \in 1..4 :
          guest'.last.args[2] = AxisAlias(k) =>
            guest'.last.ret =
              IF Present THEN AxisField(Slot.val.current_state, k) ELSE 0]_vars

\* C39 (as the code has it): vexControllerGet(id, i) with i the index that
\* the alias Axis k names returns current_state.axis (5 - k) of a present
\* slot, that is axis1 for AnaLeftX = 0, axis2 for AnaLeftY = 1, axis4 for
\* AnaRightX = 2 and axis3 for AnaRightY = 3, and 0 for an absent slot.
C39_AxesByIndex ==
  [][Returns({"vexControllerGet"}) =>
       \A k \in 1..4 :
          guest'.last.args[2] = AxisAlias(k) =>
            guest'.last.ret =
              IF Present THEN AxisField(Slot.val.current_state, 5 - k) ELSE 0]_vars
\* vexControllerGet(0, AnaRightX) has returned axis4 of the state slot 0 was
\* set to
C39_Witness ==
  /\ guest.last.fn = "vexControllerGet"
  /\ guest.last.args = <<0, 2>>
  /\ guest.last.ret = 33
  /\ sdk.inputs.controllers[1] = Frozen(ControllerStateB)

\* C40: for a signed conversion with the space flag and a non-negative value
\* of natural length d, for every requested width w >= 0 the width handed to
\* the formatter has not wrapped (it is at most max(w, d + 1)), the
\* conversion writes max(w, d + 1) bytes and the returned count equals it.
C40_WidthNeverWraps ==
  (/\ guest.last.fn = "fmt_write"
   /\ "PREPEND_SPACE" \in guest.last.args[1]
   /\ ~guest.last.args[3].negative) =>
     LET w == guest.last.args[2]
         d == guest.last.args[3].digits
         most == IF w > d + 1 THEN w ELSE d + 1
     IN /\ FitsU16(guest.last.width) /\ guest.last.width[1] <= most
        /\ pc = "guest"
        /\ guest.last.ret = most
====
